---- MODULE Spec2Model ----
(***************************************************************************)
(* Model of receiver.py (the video row, the request handlers and the      *)
(* background tasks) and of the pipeline of researcher.py: the research    *)
(* step of perform_research, and perform_drafting: segmenting the notes in *)
(* atomic blocks, chunk assembly, the sequential per-chunk draft loop      *)
(* against the generation backend with the parse of its responses, and     *)
(* citation replacement.                                                   *)
(*                                                                         *)
(* Text is a sequence of one-character strings, so that len(), strip(),    *)
(* string concatenation and the citation regex are computed character by   *)
(* character.  Sizes are scaled down: DRAFT_CHUNK_SIZE defaults to 3000 in *)
(* the program and ranges over 1..MaxChunkSize here.                       *)
(***************************************************************************)
EXTENDS Integers, Sequences, FiniteSets, TLC

VARIABLES
    pc,             \* position inside perform_drafting
    chunk_size,     \* DRAFT_CHUNK_SIZE
    pre_chunks,     \* atomic blocks (stripped, non-empty), line 209
    bi,             \* number of blocks the merge loop has consumed
    current_chunk,  \* the accumulator of the merge loop
    valid_chunks,   \* the chunks assembled so far / handed to the draft loop
    origin,         \* history: for each chunk, the blocks it was built from
    cur_first,      \* history: index of the first block held by the accumulator
    index,          \* chunk loop index (0-based, as enumerate gives it)
    all_tweets,     \* accumulated drafts
    response,       \* the local variable `response` (Unbound until first assigned)
    citations,      \* the source list
    submitted,      \* history: chunk indexes handed to the backend, in order
    inflight,       \* history: chunk indexes whose backend call has not ended
    outcomes,       \* history: per submitted chunk, how its backend call ended
    prompts,        \* history: per submitted chunk, the system prompt used
    segs,           \* history: the structure the draft under resolution was built from
    result,         \* the returned {"tweet_drafts": ...} list, or NoResult
    notes,          \* research_notes as passed to perform_drafting
    raw,            \* history: the response body before any code fencing
    research,       \* the state of perform_research around perform_drafting
    web             \* receiver.py: the Colab URL, the video row and the background tasks

vars == << pc, chunk_size, pre_chunks, bi, current_chunk, valid_chunks, origin,
           cur_first, index, all_tweets, response, citations, submitted,
           inflight, outcomes, prompts, segs, result, notes, raw, research, web >>

----------------------------------------------------------------------------
(* Bounds *)

MaxBlocks == 3
MaxChunkSize == 6
MaxSegs == 2

----------------------------------------------------------------------------
(* Text helpers: Python str operations on character sequences *)

RECURSIVE SeqsUpTo(_, _)
SeqsUpTo(S, n) ==
    IF n = 0 THEN { <<>> }
    ELSE LET shorter == SeqsUpTo(S, n - 1)
         IN  shorter \cup { Append(s, x) : s \in { t \in shorter : Len(t) = n - 1 }, x \in S }

IsSpace(c) == c \in { " ", "\n", "\t" }

RECURSIVE LStrip(_)
LStrip(t) == IF t # <<>> /\ IsSpace(Head(t)) THEN LStrip(Tail(t)) ELSE t

RECURSIVE RStrip(_)
RStrip(t) ==
    IF t # <<>> /\ IsSpace(t[Len(t)]) THEN RStrip(SubSeq(t, 1, Len(t) - 1)) ELSE t

\* str.strip()
Strip(t) == RStrip(LStrip(t))

\* the "\n\n" paragraph separator of line 245
ParSep == << "\n", "\n" >>

RECURSIVE Join(_, _)
\* sep.join(list)
Join(list, sep) ==
    IF list = <<>> THEN <<>>
    ELSE IF Len(list) = 1 THEN list[1]
    ELSE list[1] \o sep \o Join(Tail(list), sep)

RECURSIVE Flatten(_)
Flatten(lists) ==
    IF lists = <<>> THEN <<>> ELSE Head(lists) \o Flatten(Tail(lists))

----------------------------------------------------------------------------
(* Chunk assembly, lines 212-257 *)

\* line 227: a single block is massive
Oversized(block, M) == Len(block) > M

Fits_Strict(cur, block, M) == Len(cur) + Len(block) + 2 < M

Fits_NoSeparator(cur, block, M) == Len(cur) + Len(block) <= M

\* line 243: adding this block (+2 for the separator) stays within the limit
Fits(cur, block, M) == Len(cur) + Len(block) + 2 <= M

\* splitter.split_text(block), line 228.  The splitter is a library object;
\* its result is taken to be any cutting of the block into consecutive pieces,
\* each stripped and the empty ones dropped (the uncut block included: the
\* splitter's last resort).
PiecesAt(block, cuts) ==
    LET n == Len(block)
        bounds == { 0, n } \cup cuts
        NextCut(i) == CHOOSE j \in bounds : j > i /\ \A k \in bounds : k > i => j <= k
        R[i \in 0..n] ==
            IF i = n THEN <<>>
            ELSE LET j == NextCut(i)
                     piece == Strip(SubSeq(block, i + 1, j))
                 IN  (IF piece = <<>> THEN <<>> ELSE << piece >>) \o R[j]
    IN  R[0]

SplitText(block) ==
    { PiecesAt(block, cuts) : cuts \in SUBSET (1..(Len(block) - 1)) }

SplitStep_KeepsLastPiece(valid, cur, sub_chunks) ==
    LET flushed == IF cur # <<>> THEN Append(valid, Strip(cur)) ELSE valid
    IN  IF sub_chunks = <<>> THEN [ valid |-> flushed, cur |-> <<>> ]
        ELSE [ valid |-> flushed \o SubSeq(sub_chunks, 1, Len(sub_chunks) - 1),
               cur |-> sub_chunks[Len(sub_chunks)] ]

\* lines 229-239: flush the buffer, then add every sub-chunk as a chunk
SplitStep(valid, cur, sub_chunks) ==
    [ valid |-> (IF cur # <<>> THEN Append(valid, Strip(cur)) ELSE valid) \o sub_chunks,
      cur |-> <<>> ]

MergeStep_NeverMerges(valid, cur, block, M) ==
    [ valid |-> IF cur # <<>> THEN Append(valid, Strip(cur)) ELSE valid,
      cur |-> block ]

MergeStep_NoFlush(valid, cur, block, M) ==
    IF Fits(cur, block, M)
    THEN [ valid |-> valid,
           cur |-> IF cur # <<>> THEN cur \o ParSep \o block ELSE block ]
    ELSE [ valid |-> valid, cur |-> block ]

\* lines 243-253: append the block to the accumulator, or flush and restart
MergeStep(valid, cur, block, M) ==
    IF Fits(cur, block, M)
    THEN [ valid |-> valid,
           cur |-> IF cur # <<>> THEN cur \o ParSep \o block ELSE block ]
    ELSE [ valid |-> IF cur # <<>> THEN Append(valid, Strip(cur)) ELSE valid,
           cur |-> block ]

Flush_Always(valid, cur) == Append(valid, Strip(cur))

\* lines 255-257: flush the remaining buffer
Flush(valid, cur) == IF cur # <<>> THEN Append(valid, Strip(cur)) ELSE valid

----------------------------------------------------------------------------
(* Citation replacement, lines 387-415 *)

IsDigit(c) == c \in { "0", "1", "2", "3", "4", "5", "6", "7", "8", "9" }

DigitVal(c) ==
    CASE c = "0" -> 0 [] c = "1" -> 1 [] c = "2" -> 2 [] c = "3" -> 3
      [] c = "4" -> 4 [] c = "5" -> 5 [] c = "6" -> 6 [] c = "7" -> 7
      [] c = "8" -> 8 [] c = "9" -> 9

RECURSIVE ToInt(_)
\* int(match.group(1)), line 395
ToInt(digits) ==
    IF digits = <<>> THEN 0
    ELSE 10 * ToInt(SubSeq(digits, 1, Len(digits) - 1)) + DigitVal(digits[Len(digits)])

CiteTag == << "c", "i", "t", "e", ":" >>

RECURSIVE SkipSpaces(_, _)
\* \s* from position k
SkipSpaces(t, k) ==
    IF k <= Len(t) /\ IsSpace(t[k]) THEN SkipSpaces(t, k + 1) ELSE k

RECURSIVE DigitsEnd(_, _)
\* \d+ from position k: the position after the last digit of the run
DigitsEnd(t, k) ==
    IF k <= Len(t) /\ IsDigit(t[k]) THEN DigitsEnd(t, k + 1) ELSE k

NoMatch == [ ok |-> FALSE, digits |-> <<>>, last |-> 0 ]

\* (\d+)\] tried at position k
NumberAt(t, k) ==
    LET e == DigitsEnd(t, k)
    IN  IF e > k /\ e <= Len(t) /\ t[e] = "]"
        THEN [ ok |-> TRUE, digits |-> SubSeq(t, k, e - 1), last |-> e ]
        ELSE NoMatch

\* the pattern \[(?:cite:\s*)?(\d+)\] of line 412 tried at position i
MatchAt(t, i) ==
    IF i > Len(t) \/ t[i] # "["
    THEN NoMatch
    ELSE LET tagged == i + 5 <= Len(t) /\ SubSeq(t, i + 1, i + 5) = CiteTag
             withTag == IF tagged THEN NumberAt(t, SkipSpaces(t, i + 6)) ELSE NoMatch
         IN  IF withTag.ok THEN withTag ELSE NumberAt(t, i + 1)

\* str(source) of a structured source (Python's dict display)
DictStr(source) ==
    << "{" >>
    \o (IF source.has_uri
        THEN << "'", "u", "r", "i", "'", ":", " ", "'" >> \o source.uri \o << "'" >>
        ELSE <<>>)
    \o (IF source.has_uri /\ source.has_url THEN << ",", " " >> ELSE <<>>)
    \o (IF source.has_url
        THEN << "'", "u", "r", "l", "'", ":", " ", "'" >> \o source.url \o << "'" >>
        ELSE <<>>)
    \o << "}" >>

SourceUrl_UrlFirst(source) ==
    IF source.isdict
    THEN IF source.has_url /\ source.url # <<>> THEN source.url
         ELSE IF source.has_uri /\ source.uri # <<>> THEN source.uri
         ELSE DictStr(source)
    ELSE source.s

\* lines 398-402: source.get("uri") or source.get("url") or str(source)
SourceUrl(source) ==
    IF source.isdict
    THEN IF source.has_uri /\ source.uri # <<>> THEN source.uri
         ELSE IF source.has_url /\ source.url # <<>> THEN source.url
         ELSE DictStr(source)
    ELSE source.s

InBounds_SkipsFirst(idx, cites) == 0 < idx /\ idx < Len(cites)

\* line 396
InBounds(idx, cites) == 0 <= idx /\ idx < Len(cites)

\* replace_citation, lines 392-406; whole is match.group(0)
replace_citation(digits, whole, cites) ==
    LET idx == ToInt(digits) - 1
    IN  IF InBounds(idx, cites)
        THEN << "(" >> \o SourceUrl(cites[idx + 1]) \o << ")" >>
        ELSE whole

RECURSIVE SubFrom_SkipsAfterMiss(_, _, _)
SubFrom_SkipsAfterMiss(t, i, cites) ==
    IF i > Len(t) THEN <<>>
    ELSE LET m == MatchAt(t, i)
         IN  IF m.ok
             THEN replace_citation(m.digits, SubSeq(t, i, m.last), cites)
                  \o SubFrom_SkipsAfterMiss(t, m.last + 1, cites)
             ELSE << t[i] >> \o SubFrom_SkipsAfterMiss(t, i + 2, cites)

RECURSIVE SubFrom(_, _, _)
\* re.sub over the text from position i: leftmost non-overlapping matches
\* are replaced, every other character is copied
SubFrom(t, i, cites) ==
    IF i > Len(t) THEN <<>>
    ELSE LET m == MatchAt(t, i)
         IN  IF m.ok
             THEN replace_citation(m.digits, SubSeq(t, i, m.last), cites)
                  \o SubFrom(t, m.last + 1, cites)
             ELSE << t[i] >> \o SubFrom(t, i + 1, cites)

\* line 412
ResolveTweet(tweet, cites) == SubFrom(tweet, 1, cites)

\* lines 388-415: `if citations:` guards the whole pass
ResolveAll(tweets, cites) ==
    IF cites # <<>>
    THEN [ k \in 1..Len(tweets) |-> ResolveTweet(tweets[k], cites) ]
    ELSE tweets

----------------------------------------------------------------------------
(* Segmentation of the research notes, lines 196-210 *)

RECURSIVE ReplaceFrom(_, _, _, _)
\* str.replace(pat, rep) from position i: leftmost non-overlapping occurrences
ReplaceFrom(t, i, pat, rep) ==
    IF i > Len(t) THEN <<>>
    ELSE IF i + Len(pat) - 1 <= Len(t) /\ SubSeq(t, i, i + Len(pat) - 1) = pat
         THEN rep \o ReplaceFrom(t, i + Len(pat), pat, rep)
         ELSE << t[i] >> \o ReplaceFrom(t, i + 1, pat, rep)

Replace(t, pat, rep) == ReplaceFrom(t, 1, pat, rep)

\* line 198: research_notes.replace("\\n", "\n")
NormalizeNewlines(t) == Replace(t, << "\\", "n" >>, << "\n" >>)

RECURSIVE RunEnd(_, _, _)
\* the position after the run of character c that starts at position k
RunEnd(t, k, c) ==
    IF k <= Len(t) /\ t[k] = c THEN RunEnd(t, k + 1, c) ELSE k

\* ^ under re.MULTILINE
AtLineStart(t, i) == i = 1 \/ t[i - 1] = "\n"

\* (?=^#{1,6} )
HeadingAt(t, i) ==
    LET e == RunEnd(t, i, "#")
    IN  e - i >= 1 /\ e - i <= 6 /\ e <= Len(t) /\ t[e] = " "

\* (?=^\* {2,})
BulletAt(t, i) ==
    i + 2 <= Len(t) /\ t[i] = "*" /\ t[i + 1] = " " /\ t[i + 2] = " "

\* (?=^\d+\. )
NumberedAt(t, i) ==
    LET e == DigitsEnd(t, i)
    IN  e > i /\ e + 1 <= Len(t) /\ t[e] = "." /\ t[e + 1] = " "

\* one of the three zero-width alternatives of line 204 matches at i
MarkerAt(t, i) ==
    AtLineStart(t, i) /\ (HeadingAt(t, i) \/ BulletAt(t, i) \/ NumberedAt(t, i))

\* as if the pattern were \n\s*\n: a line of spaces counts as a blank line
ParagraphBreakAt_BlankLine(t, i) ==
    /\ t[i] = "\n"
    /\ RunEnd(t, i + 1, " ") <= Len(t)
    /\ t[RunEnd(t, i + 1, " ")] = "\n"

\* \n{2,} matches at i
ParagraphBreakAt(t, i) == t[i] = "\n" /\ i + 1 <= Len(t) /\ t[i + 1] = "\n"

RECURSIVE SplitFrom_ConsumesMarker(_, _, _)
SplitFrom_ConsumesMarker(t, i, start) ==
    IF i > Len(t) THEN << SubSeq(t, start, Len(t)) >>
    ELSE IF ParagraphBreakAt(t, i)
         THEN << SubSeq(t, start, i - 1) >>
              \o SplitFrom_ConsumesMarker(t, RunEnd(t, i, "\n"), RunEnd(t, i, "\n"))
         ELSE IF MarkerAt(t, i) /\ i > start
              THEN << SubSeq(t, start, i - 1) >> \o SplitFrom_ConsumesMarker(t, i + 1, i + 1)
              ELSE SplitFrom_ConsumesMarker(t, i + 1, start)

RECURSIVE SplitFrom(_, _, _)
\* re.split of lines 203-207 scanning from position i, the current part
\* having started at position start: a run of two or more newlines is
\* consumed, a marker at a line start splits in front of itself
SplitFrom(t, i, start) ==
    IF i > Len(t) THEN << SubSeq(t, start, Len(t)) >>
    ELSE IF ParagraphBreakAt(t, i)
         THEN << SubSeq(t, start, i - 1) >>
              \o SplitFrom(t, RunEnd(t, i, "\n"), RunEnd(t, i, "\n"))
         ELSE IF MarkerAt(t, i) /\ i > start
              THEN << SubSeq(t, start, i - 1) >> \o SplitFrom(t, i + 1, i)
              ELSE SplitFrom(t, i + 1, start)

NonEmpty(t) == t # <<>>

\* lines 198-209: pre_chunks = [p.strip() for p in parts if p.strip()]
PreChunks(research_notes) ==
    LET parts == SplitFrom(NormalizeNewlines(research_notes), 1, 1)
    IN  SelectSeq([ k \in 1..Len(parts) |-> Strip(parts[k]) ], NonEmpty)

----------------------------------------------------------------------------
(* Backend responses and their parsing, lines 328-379 *)

(* A response is [ bound, has_text, text ]: whether the local `response`   *)
(* has been assigned, whether response.text is a string (not None), and    *)
(* that string.  The texts of the model hold JSON without escapes, floats  *)
(* or signs; Loads is json.loads on such texts.                            *)

Unbound == [ bound |-> FALSE, has_text |-> FALSE, text |-> <<>> ]

NoText == [ bound |-> TRUE, has_text |-> FALSE, text |-> <<>> ]

TextResponse(text) == [ bound |-> TRUE, has_text |-> TRUE, text |-> text ]

(* A value as json.loads builds it: t is its Python type, s its str() text, *)
(* items the elements of a list, members the key-value pairs of a dict.     *)

Str(text) == [ t |-> "str", s |-> text, items |-> <<>>, members |-> <<>> ]

Num(digits) == [ t |-> "num", s |-> digits, items |-> <<>>, members |-> <<>> ]

Bool(b) ==
    [ t |-> "bool",
      s |-> IF b THEN << "T", "r", "u", "e" >> ELSE << "F", "a", "l", "s", "e" >>,
      items |-> <<>>, members |-> <<>> ]

Null == [ t |-> "null", s |-> << "N", "o", "n", "e" >>, items |-> <<>>, members |-> <<>> ]

List(items) == [ t |-> "list", s |-> <<>>, items |-> items, members |-> <<>> ]

Member(key, value) == [ key |-> key, value |-> value ]

Dict(members) == [ t |-> "dict", s |-> <<>>, items |-> <<>>, members |-> members ]

\* text[i:].startswith(pat), 1-based
StartsWithAt(t, i, pat) ==
    i + Len(pat) - 1 <= Len(t) /\ SubSeq(t, i, i + Len(pat) - 1) = pat

\* pat in text
Contains(t, pat) == \E i \in 1..(Len(t) + 1) : StartsWithAt(t, i, pat)

\* the backquote character, which a TLA+ string cannot hold
Backquote == "<backquote>"

Fence == << Backquote, Backquote, Backquote >>
FenceJson == Fence \o << "j", "s", "o", "n" >>

\* lines 420-426
clean_json_markdown(text) ==
    IF StartsWithAt(text, 1, FenceJson)
    THEN Replace(Replace(text, FenceJson, <<>>), Fence, <<>>)
    ELSE IF StartsWithAt(text, 1, Fence)
         THEN Replace(text, Fence, <<>>)
         ELSE Strip(text)

RECURSIVE StringEnd(_, _)
\* the position of the quote that closes the string whose content starts at
\* i, or 0: a control character or the end of the text comes first
StringEnd(t, i) ==
    IF i > Len(t) \/ t[i] \in { "\n", "\t", "\\" } THEN 0
    ELSE IF t[i] = "\"" THEN i
    ELSE StringEnd(t, i + 1)

NoValue == [ ok |-> FALSE, v |-> Null, next |-> 0 ]

Value(v, next) == [ ok |-> TRUE, v |-> v, next |-> next ]

RECURSIVE ParseValue(_, _)
RECURSIVE ParseElements(_, _, _)
RECURSIVE ParseMembers(_, _, _)

\* the JSON value that starts at position i of t
ParseValue(t, i) ==
    IF i > Len(t) THEN NoValue
    ELSE CASE t[i] = "\"" ->
                LET e == StringEnd(t, i + 1)
                IN  IF e = 0 THEN NoValue ELSE Value(Str(SubSeq(t, i + 1, e - 1)), e + 1)
           [] t[i] = "[" ->
                LET j == SkipSpaces(t, i + 1)
                IN  IF j <= Len(t) /\ t[j] = "]" THEN Value(List(<<>>), j + 1)
                    ELSE ParseElements(t, j, <<>>)
           [] t[i] = "{" ->
                LET j == SkipSpaces(t, i + 1)
                IN  IF j <= Len(t) /\ t[j] = "}" THEN Value(Dict(<<>>), j + 1)
                    ELSE ParseMembers(t, j, <<>>)
           [] IsDigit(t[i]) ->
                LET e == IF t[i] = "0" THEN i + 1 ELSE DigitsEnd(t, i)
                IN  Value(Num(SubSeq(t, i, e - 1)), e)
           [] StartsWithAt(t, i, << "t", "r", "u", "e" >>) -> Value(Bool(TRUE), i + 4)
           [] StartsWithAt(t, i, << "f", "a", "l", "s", "e" >>) -> Value(Bool(FALSE), i + 5)
           [] StartsWithAt(t, i, << "n", "u", "l", "l" >>) -> Value(Null, i + 4)
           [] OTHER -> NoValue

\* the elements of a list from position i on, after the elements acc
ParseElements(t, i, acc) ==
    LET e == ParseValue(t, i)
        j == SkipSpaces(t, e.next)
    IN  IF ~e.ok \/ j > Len(t) THEN NoValue
        ELSE IF t[j] = "," THEN ParseElements(t, SkipSpaces(t, j + 1), Append(acc, e.v))
        ELSE IF t[j] = "]" THEN Value(List(Append(acc, e.v)), j + 1)
        ELSE NoValue

\* the members of an object from position i on, after the members acc
ParseMembers(t, i, acc) ==
    IF i > Len(t) \/ t[i] # "\"" \/ StringEnd(t, i + 1) = 0 THEN NoValue
    ELSE LET q == StringEnd(t, i + 1)
             key == SubSeq(t, i + 1, q - 1)
             c == SkipSpaces(t, q + 1)
         IN  IF c > Len(t) \/ t[c] # ":" THEN NoValue
             ELSE LET e == ParseValue(t, SkipSpaces(t, c + 1))
                      j == SkipSpaces(t, e.next)
                      more == Append(acc, Member(key, e.v))
                  IN  IF ~e.ok \/ j > Len(t) THEN NoValue
                      ELSE IF t[j] = "," THEN ParseMembers(t, SkipSpaces(t, j + 1), more)
                      ELSE IF t[j] = "}" THEN Value(Dict(more), j + 1)
                      ELSE NoValue

\* json.loads(text): ok is FALSE where it raises JSONDecodeError
Loads(text) ==
    LET r == ParseValue(text, SkipSpaces(text, 1))
    IN  IF r.ok /\ SkipSpaces(text, r.next) = Len(text) + 1 THEN r ELSE NoValue

UpperCase ==
    << "A", "B", "C", "D", "E", "F", "G", "H", "I", "J", "K", "L", "M",
       "N", "O", "P", "Q", "R", "S", "T", "U", "V", "W", "X", "Y", "Z" >>

LowerCase ==
    << "a", "b", "c", "d", "e", "f", "g", "h", "i", "j", "k", "l", "m",
       "n", "o", "p", "q", "r", "s", "t", "u", "v", "w", "x", "y", "z" >>

\* str.lower()
Lower(text) ==
    [ k \in 1..Len(text) |->
        IF \E u \in 1..Len(UpperCase) : UpperCase[u] = text[k]
        THEN LowerCase[CHOOSE u \in 1..Len(UpperCase) : UpperCase[u] = text[k]]
        ELSE text[k] ]

KeyTweetDrafts == << "t", "w", "e", "e", "t", "_", "d", "r", "a", "f", "t", "s" >>
KeyTweets == << "t", "w", "e", "e", "t", "s" >>

\* line 336: "tweet_drafts" in data
KeyExact(key) == key = KeyTweetDrafts

KeyFuzzy_DraftOrTweet(key) ==
    Contains(Lower(key), << "d", "r", "a", "f", "t" >>) \/ Contains(Lower(key), << "t", "w", "e", "e", "t" >>)

\* line 342: "tweet_drafts" in key.lower() or "tweets" in key.lower()
KeyFuzzy(key) ==
    Contains(Lower(key), KeyTweetDrafts) \/ Contains(Lower(key), KeyTweets)

\* data[key]: a repeated key holds its last value
Get(members, key) ==
    members[CHOOSE k \in 1..Len(members) :
              /\ members[k].key = key
              /\ \A j \in (k + 1)..Len(members) : members[j].key # key].value

RECURSIVE FoundKey(_, _)
\* lines 340-344: the loop over data.keys() from member k on, broken at the
\* first key that matches; 0 if none does
FoundKey(members, k) ==
    IF k > Len(members) THEN 0
    ELSE IF KeyFuzzy(members[k].key) THEN k
    ELSE FoundKey(members, k + 1)

\* lines 333-352: `drafts` after the structured extraction, [] if untouched
StructuredDrafts(data) ==
    CASE data.t = "dict" ->
            IF \E k \in 1..Len(data.members) : KeyExact(data.members[k].key)
            THEN Get(data.members, KeyTweetDrafts)
            ELSE IF FoundKey(data.members, 1) # 0
                 THEN Get(data.members, data.members[FoundKey(data.members, 1)].key)
                 ELSE List(<<>>)
      [] data.t = "list" -> data
      [] OTHER -> List(<<>>)

Min(S) == CHOOSE x \in S : \A y \in S : x <= y
Max(S) == CHOOSE x \in S : \A y \in S : x >= y

\* line 357: re.search(r'\[.*\]', text, re.DOTALL), <<>> for no match: from
\* the first opening bracket to the last closing one
ArrayMatch(text) ==
    LET opens == { i \in 1..Len(text) : text[i] = "[" }
        closes == { j \in 1..Len(text) : text[j] = "]" /\ j > Min(opens) }
    IN  IF opens = {} \/ closes = {} THEN <<>>
        ELSE SubSeq(text, Min(opens), Max(closes))

\* lines 358-364: the match parsed as JSON, taken if it is a list
RegexDrafts(text) ==
    LET r == Loads(ArrayMatch(text))
    IN  IF ArrayMatch(text) # <<>> /\ r.ok /\ r.v.t = "list" THEN r.v ELSE List(<<>>)

RECURSIVE SplitLines(_, _, _)
\* text.split('\n') scanning from position i, the current line having
\* started at position start
SplitLines(t, i, start) ==
    IF i > Len(t) THEN << SubSeq(t, start, Len(t)) >>
    ELSE IF t[i] = "\n" THEN << SubSeq(t, start, i - 1) >> \o SplitLines(t, i + 1, i + 1)
    ELSE SplitLines(t, i + 1, start)

MinLineLen == 20

\* line 368: the condition of the line heuristic
KeptLine(line) ==
    /\ Len(line) > MinLineLen
    /\ ~StartsWithAt(Strip(line), 1, Fence)
    /\ ~StartsWithAt(Strip(line), 1, << "{" >>)
    /\ ~StartsWithAt(Strip(line), 1, << "}" >>)

\* line 368
LineDrafts(text) ==
    LET kept == SelectSeq(SplitLines(text, 1, 1), KeptLine)
    IN  List([ k \in 1..Len(kept) |-> Str(Strip(kept[k])) ])

FallbackDrafts_RegexOnly(text) == RegexDrafts(text)

\* lines 354-368: `drafts` after the handler of JSONDecodeError
FallbackDrafts(text) ==
    IF RegexDrafts(text).items # <<>> THEN RegexDrafts(text) ELSE LineDrafts(text)

\* iterating over the value, or extending a list with it, is possible
Iterable(v) == v.t \in { "list", "str", "dict" }

\* what iterating over the value yields: the elements of a list, the
\* characters of a string, the keys of a dict
Elements(v) ==
    CASE v.t = "list" -> v.items
      [] v.t = "str" -> [ k \in 1..Len(v.s) |-> Str(<< v.s[k] >>) ]
      [] v.t = "dict" -> [ k \in 1..Len(v.members) |-> Str(v.members[k].key) ]
      [] OTHER -> <<>>

\* line 372: isinstance(d, (str, int, float)); a bool is an int
Keeps(item) == item.t \in { "str", "num", "bool" }

\* line 372: [str(d) for d in drafts if isinstance(d, (str, int, float))]
Normalize(items) ==
    LET kept == SelectSeq(items, Keeps)
    IN  [ k \in 1..Len(kept) |-> kept[k].s ]

\* lines 328-368: `drafts` as the parse of response.text leaves it
Extracted(text) ==
    LET data == Loads(clean_json_markdown(text))
    IN  IF data.ok THEN StructuredDrafts(data.v) ELSE FallbackDrafts(text)

\* lines 328-379 for one response: raised tells whether an exception leaves
\* the block (to the handler of line 381), drafts is what all_tweets is
\* extended with otherwise
ParseResponse(r) ==
    IF ~r.has_text
    THEN \* _clean_json_markdown(None): AttributeError, not JSONDecodeError
         [ raised |-> TRUE, drafts |-> <<>> ]
    ELSE LET drafts == Extracted(r.text)
         IN  IF Iterable(drafts)
             THEN [ raised |-> FALSE, drafts |-> Normalize(Elements(drafts)) ]
             ELSE \* the comprehension of line 372 or the extend of line 379
                  \* raises TypeError
                  [ raised |-> TRUE, drafts |-> <<>> ]

----------------------------------------------------------------------------
(* Prompt selection, lines 282-299 *)

Sentinel ==
    << "N", "o", "n", "e", " ", "(", "S", "t", "a", "r", "t", " ",
       "o", "f", " ", "t", "h", "r", "e", "a", "d", ")" >>

LastTwo_LastOnly(tweets) ==
    IF tweets = <<>> THEN tweets ELSE << tweets[Len(tweets)] >>

\* all_tweets[-2:]
LastTwo(tweets) ==
    IF Len(tweets) <= 2 THEN tweets ELSE SubSeq(tweets, Len(tweets) - 1, Len(tweets))

\* lines 283-288
PreviousContext(tweets) ==
    IF tweets # <<>>
    THEN Join([ k \in 1..Len(LastTwo(tweets)) |-> << "-", " " >> \o LastTwo(tweets)[k] ],
              << "\n" >>)
    ELSE Sentinel

SystemPrompt_InitialUntilDrafts(idx, tweets) ==
    IF tweets = <<>>
    THEN [ initial |-> TRUE, previous_context |-> <<>> ]
    ELSE [ initial |-> FALSE, previous_context |-> PreviousContext(tweets) ]

\* lines 293-299
SystemPrompt(idx, tweets) ==
    IF idx = 0
    THEN [ initial |-> TRUE, previous_context |-> <<>> ]
    ELSE [ initial |-> FALSE, previous_context |-> PreviousContext(tweets) ]

----------------------------------------------------------------------------
(* Inputs *)

NoResult == << << "<", "n", "o", " ", "r", "e", "s", "u", "l", "t", ">" >> >>

\* atomic blocks as line 209 leaves them: stripped and non-empty
Blocks ==
    { << "a" >>, << "b", "b" >>, << "c", " ", "c" >>, << "d", "d", " ", "d", "d" >> }

StrSource(text) ==
    [ isdict |-> FALSE, s |-> text, has_uri |-> FALSE, uri |-> <<>>,
      has_url |-> FALSE, url |-> <<>> ]

DictSource(has_uri, uri, has_url, url) ==
    [ isdict |-> TRUE, s |-> <<>>, has_uri |-> has_uri, uri |-> uri,
      has_url |-> has_url, url |-> url ]

SrcA == StrSource(<< "h", "t", "t", "p", "s", ":", "/", "/", "a", ".", "t", "e", "s", "t" >>)
SrcB == StrSource(<< "h", "t", "t", "p", "s", ":", "/", "/", "b", ".", "t", "e", "s", "t" >>)

\* a field of a structured source: missing, empty or filled
Fields(text) == { << FALSE, <<>> >>, << TRUE, <<>> >>, << TRUE, text >> }

DictSources ==
    { DictSource(u[1], u[2], l[1], l[2]) :
        u \in Fields(<< "u" >>), l \in Fields(<< "l" >>) }

\* drafts the backend returns in the pipeline runs
DraftX == << "x", "[", "1", "]" >>
DraftY == << "y" >>
DraftZ == << "[", "c", "i", "t", "e", ":", " ", "2", "]", "z" >>

\* a line of prose, longer than the 20 characters of line 368, whose
\* bracketed part is no JSON list
DraftLine ==
    << "a", " ", "d", "r", "a", "f", "t", " ", "l", "i", "n", "e", " ", "[", "c", "i", "t", "e", ":", " ", "2", "]", " ", "o", "f", " ", "t", "e", "x", "t" >>

RECURSIVE Dumps(_)
\* the JSON text of a value, as the backend serializes it
Dumps(v) ==
    CASE v.t = "str" -> << "\"" >> \o v.s \o << "\"" >>
      [] v.t = "num" -> v.s
      [] v.t = "bool" -> IF v = Bool(TRUE) THEN << "t", "r", "u", "e" >>
                         ELSE << "f", "a", "l", "s", "e" >>
      [] v.t = "null" -> << "n", "u", "l", "l" >>
      [] v.t = "list" ->
            << "[" >> \o Join([ k \in 1..Len(v.items) |-> Dumps(v.items[k]) ],
                              << ",", " " >>) \o << "]" >>
      [] v.t = "dict" ->
            << "{" >> \o Join([ k \in 1..Len(v.members) |->
                                  << "\"" >> \o v.members[k].key \o << "\"", ":", " " >>
                                      \o Dumps(v.members[k].value) ],
                              << ",", " " >>) \o << "}" >>

\* the body inside a ```json code fence
Fenced(body) == FenceJson \o << "\n" >> \o body \o << "\n" >> \o Fence

\* {"<key>": <value>}
Object(key, value) == Dumps(Dict(<< Member(key, value) >>))

KeySummary == << "s", "u", "m", "m", "a", "r", "y" >>

\* the bodies the backend answers with in the pipeline runs
BackendBodies ==
    { Object(KeyTweetDrafts, List(<< Str(DraftX), Str(DraftY) >>)),
      Fenced(Object(KeyTweetDrafts, List(<< Str(DraftZ) >>))),
      Object(KeySummary, List(<< Str(DraftY) >>)),
      Dumps(List(<< Str(DraftY), Null, Num(<< "7" >>), Bool(TRUE) >>)),
      DraftLine }

BackendResponses == { TextResponse(body) : body \in BackendBodies } \cup { NoText }

MaxItems == 2

\* a string that holds a code fence
DraftFence == << "a", Backquote, Backquote, Backquote, "b" >>

\* the elements the lists of the parse runs are made of
ItemValues ==
    { Str(DraftY), Str(DraftFence), Num(<< "7" >>), Bool(TRUE), Null,
      List(<< Str(DraftY) >>), Dict(<< Member(DraftY, Null) >>) }

ItemLists == { List(items) : items \in SeqsUpTo(ItemValues, MaxItems) }

\* names of keys: the exact one, two that line 342 accepts, and others
KeyNames ==
    { KeyTweetDrafts, << "T", "w", "e", "e", "t", "_", "D", "r", "a", "f", "t", "s" >>, << "m", "y", "_", "t", "w", "e", "e", "t", "s" >>, << "d", "r", "a", "f", "t", "s" >>, << "t", "w", "e", "e", "t" >>, KeySummary }

\* {"<key>": <list>}, {"<key>": <scalar>}, objects of two distinct keys,
\* bare lists and scalars, and texts that are not JSON
ParseBodies ==
    { Object(key, list) : key \in KeyNames, list \in ItemLists }
        \cup { Object(KeyTweetDrafts, v) :
                   v \in { Str(DraftY), Str(DraftX), Num(<< "7" >>), Num(<< "0" >>), Null, Bool(TRUE),
                           Dict(<< Member(DraftY, Null), Member(DraftX, Null) >>) } }
        \cup { Dumps(Dict(<< Member(ks[1], List(<< Str(DraftX) >>)),
                             Member(ks[2], List(<< Str(DraftY) >>)) >>)) :
                   ks \in { p \in KeyNames \X KeyNames : p[1] # p[2] } }
        \cup { Dumps(list) : list \in ItemLists }
        \cup { Dumps(Str(DraftY)), Dumps(Num(<< "7" >>)), Dumps(Null) }
        \cup { DraftLine,
               DraftLine \o << "\n" >> \o Dumps(List(<< Null >>)),
               DraftLine \o << "\n" >> \o Dumps(List(<< Str(DraftY), Null >>)),
               DraftLine \o << "\n" >> \o Dumps(List(<<>>)) \o << "\n" >> \o DraftLine,
               DraftY \o << "\n", "{" >> \o DraftLine,
               << "[" >> \o DraftLine,
               <<>> }

----------------------------------------------------------------------------
(* Actions of perform_drafting *)

\* lines 196-223: segment the notes into atomic blocks
SegmentNotes ==
    /\ pc = "segment"
    /\ pre_chunks' = PreChunks(notes)
    /\ pc' = "assemble"
    /\ UNCHANGED << chunk_size, bi, current_chunk, valid_chunks, origin, cur_first,
                    index, all_tweets, response, citations, submitted, inflight,
                    outcomes, prompts, segs, result, notes, raw, research, web >>

\* lines 225-239: one iteration of the merge loop on an oversized block
SplitOversizedBlock ==
    /\ pc = "assemble"
    /\ bi < Len(pre_chunks)
    /\ LET block == pre_chunks[bi + 1]
       IN  /\ Oversized(block, chunk_size)
           /\ \E sub_chunks \in SplitText(block) :
                LET flushedOrigin ==
                        IF current_chunk # <<>>
                        THEN << [ first |-> cur_first, last |-> bi, piece |-> FALSE ] >>
                        ELSE <<>>
                    step == SplitStep(valid_chunks, current_chunk, sub_chunks)
                IN  /\ valid_chunks' = step.valid
                    /\ current_chunk' = step.cur
                    /\ origin' = origin \o flushedOrigin
                           \o [ k \in 1..Len(sub_chunks) |->
                                  [ first |-> bi + 1, last |-> bi + 1, piece |-> TRUE ] ]
    /\ cur_first' = bi + 2
    /\ bi' = bi + 1
    /\ UNCHANGED << pc, chunk_size, pre_chunks, index, all_tweets, response,
                    citations, submitted, inflight, outcomes, prompts, segs, result,
                    notes, raw, research, web >>

\* lines 225-253: one iteration of the merge loop on a block within the limit
MergeBlock ==
    /\ pc = "assemble"
    /\ bi < Len(pre_chunks)
    /\ LET block == pre_chunks[bi + 1]
           step == MergeStep(valid_chunks, current_chunk, block, chunk_size)
           appended == Len(step.cur) > Len(block)
       IN  /\ ~Oversized(block, chunk_size)
           /\ valid_chunks' = step.valid
           /\ current_chunk' = step.cur
           /\ origin' = IF Len(step.valid) > Len(valid_chunks)
                        THEN Append(origin, [ first |-> cur_first, last |-> bi,
                                              piece |-> FALSE ])
                        ELSE origin
           /\ cur_first' = IF appended THEN cur_first ELSE bi + 1
    /\ bi' = bi + 1
    /\ UNCHANGED << pc, chunk_size, pre_chunks, index, all_tweets, response,
                    citations, submitted, inflight, outcomes, prompts, segs, result,
                    notes, raw, research, web >>

\* lines 255-273: flush the remaining buffer and enter the chunk loop
FlushRemaining ==
    /\ pc = "assemble"
    /\ bi = Len(pre_chunks)
    /\ valid_chunks' = Flush(valid_chunks, current_chunk)
    /\ origin' = IF Len(valid_chunks') > Len(valid_chunks)
                 THEN Append(origin, [ first |-> cur_first, last |-> bi,
                                       piece |-> FALSE ])
                 ELSE origin
    /\ current_chunk' = <<>>
    /\ all_tweets' = <<>>
    /\ index' = 0
    /\ pc' = "loop"
    /\ UNCHANGED << chunk_size, pre_chunks, bi, cur_first, response, citations,
                    submitted, inflight, outcomes, prompts, segs, result,
                    notes, raw, research, web >>

CanIssue_WhileAwaiting == pc \in { "loop", "await" } /\ index < Len(valid_chunks)

\* line 276: the loop body starts for the chunk at `index`
CanIssue == pc = "loop" /\ index < Len(valid_chunks)

\* lines 277-323: build the prompt for chunk `index` and call the backend
IssueCall ==
    /\ CanIssue
    /\ prompts' = Append(prompts, SystemPrompt(index, all_tweets))
    /\ submitted' = Append(submitted, index)
    /\ inflight' = inflight \cup { Len(submitted) }
    /\ pc' = "await"
    /\ UNCHANGED << chunk_size, pre_chunks, bi, current_chunk, valid_chunks, origin,
                    cur_first, index, all_tweets, response, citations, outcomes,
                    segs, result, notes, raw, research, web >>

Extend_Prepend(tweets, drafts) == drafts \o tweets

\* line 379: all_tweets.extend(drafts)
Extend(tweets, drafts) == tweets \o drafts

AfterFailure_Clears(tweets) == <<>>

\* lines 381-385: the handler of a failed chunk logs and continues; it does
\* not touch all_tweets
AfterFailure(tweets) == tweets

HandlerRaises_Never(resp) == FALSE

\* line 383: the handler reads response.text; with `response` never assigned
\* that read raises UnboundLocalError out of the handler
HandlerRaises(resp) == resp = Unbound

\* lines 325-385 for the response r, which holds `body`: the response is
\* parsed and the drafts are appended, or the parse raises into the handler
\* of line 381
ReturnsWith(r, body) ==
    /\ LET parsed == ParseResponse(r)
       IN  /\ response' = r
           /\ raw' = body
           /\ outcomes' = Append(outcomes, [ raised |-> FALSE, resp |-> r ])
           /\ all_tweets' = IF parsed.raised THEN AfterFailure(all_tweets)
                            ELSE Extend(all_tweets, parsed.drafts)
           /\ IF parsed.raised /\ HandlerRaises(r)
              THEN /\ pc' = "raised"
                   /\ index' = index
              ELSE /\ pc' = "loop"
                   /\ index' = index + 1
    /\ inflight' = {}
    /\ UNCHANGED << chunk_size, pre_chunks, bi, current_chunk, valid_chunks, origin,
                    cur_first, citations, submitted, prompts, segs, result,
                    notes, research, web >>

\* lines 325-385: the call returns one of the pipeline's responses
BackendReturns ==
    /\ pc = "await"
    /\ \E r \in BackendResponses : ReturnsWith(r, r.text)

\* lines 325-385: the call returns a body of the parse runs, bare or inside
\* a code fence
BackendReturnsAny ==
    /\ pc = "await"
    /\ \E body \in ParseBodies, fenced \in BOOLEAN :
         ReturnsWith(TextResponse(IF fenced THEN Fenced(body) ELSE body), body)

\* lines 307, 381-385: the call raises (backend error or timeout); the handler
\* logs and continues, unless reading response.text raises itself
BackendRaises ==
    /\ pc = "await"
    /\ outcomes' = Append(outcomes, [ raised |-> TRUE, resp |-> Unbound ])
    /\ all_tweets' = AfterFailure(all_tweets)
    /\ inflight' = {}
    /\ IF HandlerRaises(response)
       THEN /\ pc' = "raised"
            /\ index' = index
       ELSE /\ pc' = "loop"
            /\ index' = index + 1
    /\ UNCHANGED << chunk_size, pre_chunks, bi, current_chunk, valid_chunks, origin,
                    cur_first, response, citations, submitted, prompts,
                    segs, result, notes, raw, research, web >>

\* lines 387-418: replace the citations and return
ResolveCitations ==
    /\ pc = "loop"
    /\ index = Len(valid_chunks)
    /\ all_tweets' = ResolveAll(all_tweets, citations)
    /\ result' = all_tweets'
    /\ pc' = "done"
    /\ UNCHANGED << chunk_size, pre_chunks, bi, current_chunk, valid_chunks, origin,
                    cur_first, index, response, citations, submitted,
                    inflight, outcomes, prompts, segs, notes, raw, research, web >>

----------------------------------------------------------------------------
(* Specification of the whole of perform_drafting *)

\* block lists of the pipeline runs
PipelineNotes ==
    { <<>>,
      << << "a" >> >>,
      << << "a" >>, << "b", "b" >> >>,
      << << "b", "b" >>, << "c", " ", "c" >> >>,
      << << "a" >>, << "b", "b" >>, << "a" >> >> }

PipelineCitations ==
    { <<>>, << SrcA >>, << SrcA, DictSource(TRUE, << "u" >>, FALSE, <<>>) >> }

\* perform_research has not returned
NoReturn == [ returned |-> FALSE ]

\* a column that holds NULL, or a text
None == [ null |-> TRUE, v |-> <<>> ]
Stored(text) == [ null |-> FALSE, v |-> text ]

\* no row of the videos table
NoRow ==
    [ exists |-> FALSE, status |-> "none", transcription |-> None,
      research_notes |-> None, tweet_drafts |-> None, sources |-> None,
      transcribed |-> FALSE ]

\* the web application is not running: the pipeline was called on its own
NoWeb == [ colab_url |-> "", added |-> FALSE, row |-> NoRow, tasks |-> <<>> ]

\* perform_research is not running: perform_drafting was called on its own
NoResearch ==
    [ pc |-> "none", client |-> TRUE, remote |-> "none", status |-> "none",
      polls |-> 0, outputs |-> "none yet", sources |-> <<>>, ret |-> NoReturn ]

\* the locals of perform_drafting before anything is assembled
Fresh ==
    /\ bi = 0
    /\ current_chunk = <<>>
    /\ valid_chunks = <<>>
    /\ origin = <<>>
    /\ cur_first = 1
    /\ index = 0
    /\ all_tweets = <<>>
    /\ response = Unbound
    /\ submitted = <<>>
    /\ inflight = {}
    /\ outcomes = <<>>
    /\ prompts = <<>>
    /\ segs = <<>>
    /\ result = NoResult
    /\ raw = <<>>

\* the state at line 212, before the merge loop
AtAssembly ==
    /\ pc = "assemble"
    /\ chunk_size \in 1..MaxChunkSize
    /\ raw = <<>>
    /\ research = NoResearch
    /\ web = NoWeb
    /\ bi = 0
    /\ current_chunk = <<>>
    /\ valid_chunks = <<>>
    /\ origin = <<>>
    /\ cur_first = 1
    /\ index = 0
    /\ all_tweets = <<>>
    /\ response = Unbound
    /\ submitted = <<>>
    /\ inflight = {}
    /\ outcomes = <<>>
    /\ prompts = <<>>
    /\ segs = <<>>
    /\ result = NoResult

\* the state at line 196: the notes are the pipeline's block lists written
\* out as paragraphs
Init ==
    /\ pc = "segment"
    /\ chunk_size \in 1..MaxChunkSize
    /\ notes \in { Join(blocks, ParSep) : blocks \in PipelineNotes }
    /\ pre_chunks = <<>>
    /\ citations \in PipelineCitations
    /\ research = NoResearch
    /\ web = NoWeb
    /\ Fresh

Next ==
    \/ SegmentNotes
    \/ SplitOversizedBlock
    \/ MergeBlock
    \/ FlushRemaining
    \/ IssueCall
    \/ BackendReturns
    \/ BackendRaises
    \/ ResolveCitations

Spec == Init /\ [][Next]_vars

----------------------------------------------------------------------------
(* Specification of the chunk assembler alone, over every block list *)

InitAssemble ==
    /\ AtAssembly
    /\ pre_chunks \in SeqsUpTo(Blocks, MaxBlocks)
    /\ notes = Join(pre_chunks, ParSep)
    /\ citations = <<>>

NextAssemble ==
    \/ SplitOversizedBlock
    \/ MergeBlock
    \/ FlushRemaining

SpecAssemble == InitAssemble /\ [][NextAssemble]_vars

----------------------------------------------------------------------------
(* Specification of the citation pass alone, over structured drafts *)

\* A draft under resolution is built from segments: plain text without
\* digits, or a citation marker in one of its written forms.
PlainTexts ==
    { << "a" >>, << " " >>, << "[" >>, << "]" >>,
      << "[", "c", "i", "t", "e", ":", " " >> }

Numerals ==
    { << "0" >>, << "1" >>, << "2" >>, << "3" >>, << "1", "2" >>, << "0", "1" >> }

MarkerKinds == { "bare", "tagged", "tagged_tight" }

Segments ==
    { [ kind |-> "text", body |-> p ] : p \in PlainTexts }
    \cup { [ kind |-> k, body |-> n ] : k \in MarkerKinds, n \in Numerals }

\* the text of one segment
RenderSeg(seg) ==
    CASE seg.kind = "text" -> seg.body
      [] seg.kind = "bare" -> << "[" >> \o seg.body \o << "]" >>
      [] seg.kind = "tagged" -> << "[" >> \o CiteTag \o << " " >> \o seg.body \o << "]" >>
      [] seg.kind = "tagged_tight" -> << "[" >> \o CiteTag \o seg.body \o << "]" >>

Render(ss) == Flatten([ k \in 1..Len(ss) |-> RenderSeg(ss[k]) ])

Text(body) == [ kind |-> "text", body |-> body ]
Bare(body) == [ kind |-> "bare", body |-> body ]

\* "claim here [1] and also [2] and [9]"
ExampleSegs ==
    << Text(<< "c", "l", "a", "i", "m", " ", "h", "e", "r", "e", " " >>),
       Bare(<< "1" >>),
       Text(<< " ", "a", "n", "d", " ", "a", "l", "s", "o", " " >>),
       Bare(<< "2" >>),
       Text(<< " ", "a", "n", "d", " " >>),
       Bare(<< "9" >>) >>

\* "claim here (https://a.test) and also (https://b.test) and [9]"
ExampleOutput ==
    << "c", "l", "a", "i", "m", " ", "h", "e", "r", "e", " ",
       "(", "h", "t", "t", "p", "s", ":", "/", "/", "a", ".", "t", "e", "s", "t", ")",
       " ", "a", "n", "d", " ", "a", "l", "s", "o", " ",
       "(", "h", "t", "t", "p", "s", ":", "/", "/", "b", ".", "t", "e", "s", "t", ")",
       " ", "a", "n", "d", " ", "[", "9", "]" >>

SourceLists ==
    { <<>>, << SrcA >>, << SrcA, SrcB >> }
    \cup { << d >> : d \in DictSources }
    \cup { << SrcA, d >> : d \in DictSources }

\* the state at line 387 of a run over one chunk whose backend call
\* returned the single draft Render(segs)
InitCite ==
    /\ segs \in SeqsUpTo(Segments, MaxSegs) \cup { ExampleSegs }
    /\ citations \in SourceLists
    /\ pc = "loop"
    /\ chunk_size = MaxChunkSize
    /\ pre_chunks = << << "a" >> >>
    /\ bi = 1
    /\ current_chunk = <<>>
    /\ valid_chunks = << << "a" >> >>
    /\ origin = << [ first |-> 1, last |-> 1, piece |-> FALSE ] >>
    /\ cur_first = 1
    /\ index = 1
    /\ all_tweets = << Render(segs) >>
    /\ response = TextResponse(Object(KeyTweetDrafts, List(<< Str(Render(segs)) >>)))
    /\ submitted = << 0 >>
    /\ inflight = {}
    /\ outcomes = << [ raised |-> FALSE, resp |-> response ] >>
    /\ prompts = << SystemPrompt(0, <<>>) >>
    /\ result = NoResult
    /\ notes = << "a" >>
    /\ raw = <<>>
    /\ research = NoResearch
    /\ web = NoWeb

NextCite == ResolveCitations

SpecCite == InitCite /\ [][NextCite]_vars

----------------------------------------------------------------------------
(* Specification of the segmenter followed by the assembler, over texts *)

MaxTokens == 4

\* the pieces the texts are written with: a letter, the two kinds of
\* whitespace, the markers of line 204 and their near misses, and the
\* two-character escape of line 198
SegTokens ==
    { << "a" >>, << "\n" >>, << " " >>, << "#" >>, << "#", " " >>,
      << "#", "#", "#", "#", "#", "#" >>, << "1", ".", " " >>,
      << "*", " ", " " >>, << "\\", "n" >> }

\* "# Intro\nHello world.\n\n## Body\nMore text here."
ExampleNotes ==
    << "#", " ", "I", "n", "t", "r", "o", "\n", "H", "e", "l", "l", "o", " ",
       "w", "o", "r", "l", "d", ".", "\n", "\n", "#", "#", " ", "B", "o",
       "d", "y", "\n", "M", "o", "r", "e", " ", "t", "e", "x", "t", " ", "h",
       "e", "r", "e", "." >>

\* "# Intro\nHello world." and "## Body\nMore text here."
ExampleBlocks ==
    <<
        << "#", " ", "I", "n", "t", "r", "o", "\n", "H", "e", "l", "l", "o",
           " ", "w", "o", "r", "l", "d", "." >>,
        << "#", "#", " ", "B", "o", "d", "y", "\n", "M", "o", "r", "e", " ",
           "t", "e", "x", "t", " ", "h", "e", "r", "e", "." >>
    >>

\* two paragraphs whose separating line holds a space
FlatNotes == << "a", "a", "\n", " ", "\n", "a", "a", "a" >>

SegmentTexts ==
    { Flatten(tokens) : tokens \in SeqsUpTo(SegTokens, MaxTokens) }
        \cup { ExampleNotes, FlatNotes }

InitSegment ==
    /\ pc = "segment"
    /\ chunk_size = 1000
    /\ notes \in SegmentTexts
    /\ pre_chunks = <<>>
    /\ citations = <<>>
    /\ research = NoResearch
    /\ web = NoWeb
    /\ Fresh

NextSegment ==
    \/ SegmentNotes
    \/ MergeBlock
    \/ FlushRemaining

SpecSegment == InitSegment /\ [][NextSegment]_vars

----------------------------------------------------------------------------
(* perform_research and _run_research_step_gemini, lines 39-139 *)

MaxPolls == 2

\* the statuses interactions.get reports
Statuses == { "in_progress", "completed", "failed", "cancelled" }

PollOutcome_BreaksWhenOver(status) ==
    CASE status = "in_progress" -> "continue"
      [] status = "failed" -> "raise"
      [] OTHER -> "break"

PollOutcome_FailedBreaks(status) ==
    IF status \in { "completed", "failed" } THEN "break" ELSE "continue"

\* lines 102-106: what one turn of the polling loop does with the status
PollOutcome(status) ==
    CASE status = "completed" -> "break"
      [] status = "failed" -> "raise"
      [] OTHER -> "continue"

ResearchResult_NoSources(research_notes, cites, tweet_drafts) ==
    [ returned |-> TRUE, research_notes |-> research_notes,
      sources |-> <<>>, tweet_drafts |-> tweet_drafts ]

\* lines 62-66: the dictionary perform_research returns
ResearchResult(research_notes, cites, tweet_drafts) ==
    [ returned |-> TRUE, research_notes |-> research_notes,
      sources |-> cites, tweet_drafts |-> tweet_drafts ]

DraftingUntouched ==
    UNCHANGED << pc, chunk_size, pre_chunks, bi, current_chunk, valid_chunks,
                 origin, cur_first, index, all_tweets, response, citations,
                 submitted, inflight, outcomes, prompts, segs, result, notes, raw, web >>

\* lines 45-46, 80-88: the client check, then interactions.create
CreateInteraction ==
    /\ research.pc = "start"
    /\ research' = IF research.client
                   THEN [ research EXCEPT !.pc = "poll", !.remote = "in_progress" ]
                   ELSE [ research EXCEPT !.pc = "raised" ]
    /\ DraftingUntouched

\* lines 95-98: the status interactions.get will report next; the agent
\* runs in the background and leaves "in_progress" for good
InteractionAdvances ==
    /\ research.pc = "poll"
    /\ research.remote = "in_progress"
    /\ \E status \in Statuses \ { "in_progress" } :
         research' = [ research EXCEPT !.remote = status ]
    /\ DraftingUntouched

\* lines 91-106: one turn of the polling loop
Poll ==
    /\ research.pc = "poll"
    /\ LET status == research.remote
       IN  /\ PollOutcome(status) = "continue" => research.polls < MaxPolls
           /\ research' =
                [ research EXCEPT
                    !.status = status,
                    !.polls = IF PollOutcome(status) = "continue" THEN @ + 1 ELSE @,
                    !.pc = CASE PollOutcome(status) = "break" -> "collect"
                             [] PollOutcome(status) = "raise" -> "raised"
                             [] OTHER -> "poll" ]
    /\ DraftingUntouched

\* lines 80-99, 137-139: interactions.create or interactions.get raises
ApiRaises ==
    /\ research.pc = "poll"
    /\ research' = [ research EXCEPT !.pc = "raised" ]
    /\ DraftingUntouched

\* lines 108-135, 49-58: read the outputs, build notes and sources and enter
\* perform_drafting, or raise for want of outputs
Collect ==
    /\ research.pc = "collect"
    /\ \/ /\ \E outputs \in { "none", "not an object" } :
               research' = [ research EXCEPT !.outputs = outputs, !.pc = "raised" ]
          /\ DraftingUntouched
       \/ \E blocks \in PipelineNotes, sources \in PipelineCitations :
            /\ research' = [ research EXCEPT !.outputs = "some", !.sources = sources,
                                             !.pc = "drafting" ]
            /\ notes' = Join(blocks, ParSep)
            /\ citations' = sources
            /\ pc' = "segment"
            /\ UNCHANGED << chunk_size, pre_chunks, bi, current_chunk, valid_chunks,
                            origin, cur_first, index, all_tweets, response,
                            submitted, inflight, outcomes, prompts, segs, result, raw, web >>

\* lines 58-66: perform_drafting has returned; combine the results
ReturnResearch ==
    /\ research.pc = "drafting"
    /\ pc = "done"
    /\ research' = [ research EXCEPT
                       !.pc = "returned",
                       !.ret = ResearchResult(notes, citations, result) ]
    /\ DraftingUntouched

\* line 58: an exception of perform_drafting leaves perform_research too
DraftingRaises ==
    /\ research.pc = "drafting"
    /\ pc = "raised"
    /\ research' = [ research EXCEPT !.pc = "raised" ]
    /\ DraftingUntouched

----------------------------------------------------------------------------
(* Specification of perform_research: the research step, then drafting *)

InitResearch ==
    /\ pc = "idle"
    /\ chunk_size \in 1..MaxChunkSize
    /\ notes = <<>>
    /\ pre_chunks = <<>>
    /\ citations = <<>>
    /\ research \in { [ NoResearch EXCEPT !.pc = "start", !.client = c ] : c \in BOOLEAN }
    /\ web = NoWeb
    /\ Fresh

NextResearch ==
    \/ CreateInteraction
    \/ InteractionAdvances
    \/ Poll
    \/ ApiRaises
    \/ Collect
    \/ SegmentNotes
    \/ SplitOversizedBlock
    \/ MergeBlock
    \/ FlushRemaining
    \/ IssueCall
    \/ BackendReturns
    \/ BackendRaises
    \/ ResolveCitations
    \/ ReturnResearch
    \/ DraftingRaises

SpecResearch == InitResearch /\ [][NextResearch]_vars

\* the event loop resumes the coroutine after every sleep and every call
\* that returns
SpecResearchLive ==
    SpecResearch /\ WF_vars(Poll) /\ WF_vars(Collect)

----------------------------------------------------------------------------
(* Specification of the chunk loop on one chunk, over response texts *)

InitParse ==
    /\ pc = "loop"
    /\ chunk_size = MaxChunkSize
    /\ notes = << "a" >>
    /\ pre_chunks = << << "a" >> >>
    /\ bi = 1
    /\ current_chunk = <<>>
    /\ valid_chunks = << << "a" >> >>
    /\ origin = << [ first |-> 1, last |-> 1, piece |-> FALSE ] >>
    /\ cur_first = 1
    /\ index = 0
    /\ all_tweets = <<>>
    /\ response = Unbound
    /\ citations = <<>>
    /\ submitted = <<>>
    /\ inflight = {}
    /\ outcomes = <<>>
    /\ prompts = <<>>
    /\ segs = <<>>
    /\ result = NoResult
    /\ raw = <<>>
    /\ research = NoResearch
    /\ web = NoWeb

NextParse ==
    \/ IssueCall
    \/ BackendReturnsAny
    \/ BackendRaises
    \/ ResolveCitations

SpecParse == InitParse /\ [][NextParse]_vars

----------------------------------------------------------------------------
(* receiver.py: the video row, the request handlers and the background tasks *)

MaxTasks == 2

\* line 242: len(video.transcription) > 10
RetryMinLen == 10

\* line 91: error_msg[:200]
DetailLen == 200

\* truth value of a column: None and "" are false
Truthy(col) == ~col.null /\ col.v # <<>>

\* values of COLAB_API_URL that set_colab_url stores
ColabUrls == { "https://colab.test" }

\* data.get("text", "") of a 200 answer of the transcription worker
WorkerTexts ==
    { <<>>,
      << "h", "i", " ", "t", "h", "e", "r", "e" >>,
      << "a", " ", "r", "e", "a", "l", " ", "t", "r", "a", "n", "s", "c", "r",
       "i", "p", "t", "i", "o", "n" >> }

\* line 175: f"Colab Error: {response.status_code} - {response.text}"
ColabError(code, body) ==
    << "C", "o", "l", "a", "b", " ", "E", "r", "r", "o", "r", ":", " " >>
        \o code \o << " ", "-", " " >> \o body

\* line 181: f"Connection Failed: {type(e).__name__} - {str(e)}"
ConnectionFailed(type, msg) ==
    << "C", "o", "n", "n", "e", "c", "t", "i", "o", "n", " ", "F", "a", "i",
       "l", "e", "d", ":", " " >> \o type \o << " ", "-", " " >> \o msg

\* status codes other than 200 the worker answers with
ErrorCodes == { << "5", "0", "0" >> }

\* exceptions of the POST or of response.json(), by type name
PostErrors ==
    { << "C", "o", "n", "n", "e", "c", "t", "E", "r", "r", "o", "r" >>,
      << "J", "S", "O", "N", "D", "e", "c", "o", "d", "e", "E", "r", "r", "o", "r" >> }

\* str(e) of the exceptions perform_research raises
ResearchErrors ==
    {
      << "4", "0", "1", " ", "U", "n", "a", "u", "t", "h", "o", "r", "i", "z",
       "e", "d" >>,
      << "D", "e", "e", "p", " ", "R", "e", "s", "e", "a", "r", "c", "h", " ",
       "f", "a", "i", "l", "e", "d", ":", " ", "b", "o", "o", "m" >> }

\* line 89: "401" in error_msg or "Authorization" in error_msg
IsQuotaError(error_msg) ==
    \/ Contains(error_msg, << "4", "0", "1" >>)
    \/ Contains(error_msg, << "A", "u", "t", "h", "o", "r", "i", "z", "a", "t", "i", "o", "n" >>)

\* line 91
QuotaNotes(error_msg) ==
    << "R", "e", "s", "e", "a", "r", "c", "h", " ", "F", "a", "i", "l", "e",
       "d", ":", " ", "I", "n", "s", "u", "f", "f", "i", "c", "i", "e", "n",
       "t", " ", "P", "e", "r", "p", "l", "e", "x", "i", "t", "y", " ", "A",
       "P", "I", " ", "Q", "u", "o", "t", "a", " ", "o", "r", " ", "A", "u",
       "t", "h", " ", "E", "r", "r", "o", "r", " ", "(", "4", "0", "1", ")",
       ".", "\n", "\n", "D", "e", "t", "a", "i", "l", "s", ":", " " >>
        \o SubSeq(error_msg, 1, Min({ DetailLen, Len(error_msg) }))
        \o << ".", ".", "." >>

\* line 94
FailedNotes(error_msg) ==
    << "R", "e", "s", "e", "a", "r", "c", "h", " ", "F", "a", "i", "l", "e",
       "d", ":", " " >> \o error_msg

\* the dictionaries perform_research returns
ResearchResults ==
    { [ research_notes |-> << "n" >>,
        tweet_drafts |-> List(<< Str(DraftY) >>),
        sources |-> List(<<>>) ] }

\* a background task: its function, the handler that queued it, its position,
\* and whether the `video` its session loaded is a row (not None)
Task(kind, handler) ==
    [ kind |-> kind, origin |-> handler, pc |-> "queued", video |-> FALSE ]

\* lines 221-224: the row add_video inserts, with the column defaults
NewRow ==
    [ exists |-> TRUE, status |-> "Pending", transcription |-> None,
      research_notes |-> None, tweet_drafts |-> None, sources |-> None,
      transcribed |-> FALSE ]

PipelineUntouched ==
    UNCHANGED << pc, chunk_size, pre_chunks, bi, current_chunk, valid_chunks,
                 origin, cur_first, index, all_tweets, response, citations,
                 submitted, inflight, outcomes, prompts, segs, result, notes, raw,
                 research >>

\* the task at position i moves to `position`, the row becomes `row`
TaskMoves(i, position, loaded, row) ==
    web' = [ web EXCEPT !.tasks[i].pc = position, !.tasks[i].video = loaded,
                        !.row = row ]

\* db.commit() of changes to a loaded row.  If another session has deleted
\* the row meanwhile, the UPDATE matches nothing: the library either raises
\* (and the commit of the handler that catches it raises again, out of the
\* task) or lets it pass; otherwise the row is written and the task goes on.
Commits(i, stale_raises, row, position, loaded) ==
    IF web.row.exists
    THEN TaskMoves(i, position, loaded, row)
    ELSE TaskMoves(i, IF stale_raises THEN "raised" ELSE "returned", FALSE, web.row)

\* line 242: the smart-retry test
RetryPath(row) ==
    IF Truthy(row.transcription) /\ Len(row.transcription.v) > RetryMinLen
    THEN "research" ELSE "full"

\* line 64: not (not video or not video.transcription)
ResearchGuard(row) == row.exists /\ Truthy(row.transcription)

\* lines 195-212
set_colab_url ==
    /\ \E colab_url \in ColabUrls : web' = [ web EXCEPT !.colab_url = colab_url ]
    /\ PipelineUntouched

\* lines 214-230
add_video ==
    /\ ~web.added
    /\ web' = [ web EXCEPT !.added = TRUE, !.row = NewRow,
                           !.tasks = Append(@, Task("send_to_colab", "add")) ]
    /\ PipelineUntouched

\* lines 232-254
retry_video ==
    /\ Len(web.tasks) < MaxTasks
    /\ web.row.exists
    /\ web' = IF RetryPath(web.row) = "research"
              THEN [ web EXCEPT !.row.status = "Researching",
                                !.tasks = Append(@, Task("run_research_task", "retry")) ]
              ELSE [ web EXCEPT !.row.status = "Pending",
                                !.tasks = Append(@, Task("send_to_colab", "retry")) ]
    /\ PipelineUntouched

\* lines 256-272
update_research ==
    /\ Len(web.tasks) < MaxTasks
    /\ web.row.exists
    /\ web' = [ web EXCEPT !.row.research_notes = Stored(<< "n" >>),
                           !.row.status = "Drafting",
                           !.tasks = Append(@, Task("run_drafting_task", "update")) ]
    /\ PipelineUntouched

\* lines 274-284
delete_video ==
    /\ web.row.exists
    /\ web' = [ web EXCEPT !.row = NoRow ]
    /\ PipelineUntouched

\* lines 143-162: send_to_colab up to the POST
StartSendToColab ==
    /\ \E i \in 1..Len(web.tasks) :
         /\ web.tasks[i].kind = "send_to_colab"
         /\ web.tasks[i].pc = "queued"
         /\ IF web.colab_url = ""
            THEN TaskMoves(i, "returned", FALSE, web.row)
            ELSE TaskMoves(i, "posting", web.row.exists, web.row)
    /\ PipelineUntouched

\* lines 164-171, 56-71: the worker answers 200; store the text and chain
\* run_research_task, which returns at once without a transcription.  With
\* `video` None, line 166 raises and so does line 180 in the handler.
PostReturns ==
    /\ \E i \in 1..Len(web.tasks), text \in WorkerTexts, stale_raises \in BOOLEAN :
         /\ web.tasks[i].pc = "posting"
         /\ IF ~web.tasks[i].video
            THEN TaskMoves(i, "raised", FALSE, web.row)
            ELSE LET row == [ web.row EXCEPT !.transcription = Stored(text),
                                             !.status = "Researching",
                                             !.transcribed = TRUE ]
                 IN  Commits(i, stale_raises, row,
                             IF ResearchGuard(row) THEN "researching" ELSE "returned",
                             TRUE)
    /\ PipelineUntouched

\* lines 173-176: the worker answers with another status code
PostFails ==
    /\ \E i \in 1..Len(web.tasks), code \in ErrorCodes, stale_raises \in BOOLEAN :
         /\ web.tasks[i].pc = "posting"
         /\ IF ~web.tasks[i].video
            THEN TaskMoves(i, "raised", FALSE, web.row)
            ELSE Commits(i, stale_raises,
                         [ web.row EXCEPT !.status = "Error",
                                          !.transcription = Stored(ColabError(code, <<>>)),
                                          !.transcribed = FALSE ],
                         "returned", TRUE)
    /\ PipelineUntouched

\* lines 178-182: the POST or response.json() raises
PostRaises ==
    /\ \E i \in 1..Len(web.tasks), type \in PostErrors, stale_raises \in BOOLEAN :
         /\ web.tasks[i].pc = "posting"
         /\ IF ~web.tasks[i].video
            THEN TaskMoves(i, "raised", FALSE, web.row)
            ELSE Commits(i, stale_raises,
                         [ web.row EXCEPT !.status = "Error",
                                          !.transcription =
                                              Stored(ConnectionFailed(type, <<>>)),
                                          !.transcribed = FALSE ],
                         "returned", TRUE)
    /\ PipelineUntouched

\* lines 56-71: run_research_task up to the call of perform_research
StartResearchTask ==
    /\ \E i \in 1..Len(web.tasks) :
         /\ web.tasks[i].kind = "run_research_task"
         /\ web.tasks[i].pc = "queued"
         /\ IF ResearchGuard(web.row)
            THEN TaskMoves(i, "researching", TRUE, web.row)
            ELSE TaskMoves(i, "returned", FALSE, web.row)
    /\ PipelineUntouched

\* lines 71-82: perform_research returns
ResearchReturns ==
    /\ \E i \in 1..Len(web.tasks), results \in ResearchResults,
          stale_raises \in BOOLEAN :
         /\ web.tasks[i].pc = "researching"
         /\ Commits(i, stale_raises,
                    [ web.row EXCEPT
                        !.research_notes = Stored(results.research_notes),
                        !.tweet_drafts = Stored(Dumps(results.tweet_drafts)),
                        !.sources = Stored(Dumps(results.sources)),
                        !.status = "Completed" ],
                    "returned", TRUE)
    /\ PipelineUntouched

\* lines 84-96: perform_research raises
ResearchRaises ==
    /\ \E i \in 1..Len(web.tasks), error_msg \in ResearchErrors,
          stale_raises \in BOOLEAN :
         /\ web.tasks[i].pc = "researching"
         /\ Commits(i, stale_raises,
                    IF IsQuotaError(error_msg)
                    THEN [ web.row EXCEPT !.status = "Quota_Exceeded",
                                          !.research_notes = Stored(QuotaNotes(error_msg)) ]
                    ELSE [ web.row EXCEPT !.status = "Research_Failed",
                                          !.research_notes = Stored(FailedNotes(error_msg)) ],
                    "returned", TRUE)
    /\ PipelineUntouched

\* lines 100-123: run_drafting_task up to the call of perform_drafting
StartDraftingTask ==
    /\ \E i \in 1..Len(web.tasks) :
         /\ web.tasks[i].kind = "run_drafting_task"
         /\ web.tasks[i].pc = "queued"
         /\ IF /\ web.row.exists
               /\ Truthy(web.row.transcription)
               /\ Truthy(web.row.research_notes)
            THEN TaskMoves(i, "drafting", TRUE, web.row)
            ELSE TaskMoves(i, "returned", FALSE, web.row)
    /\ PipelineUntouched

\* lines 123-130: perform_drafting returns
DraftingReturns ==
    /\ \E i \in 1..Len(web.tasks), results \in ResearchResults,
          stale_raises \in BOOLEAN :
         /\ web.tasks[i].pc = "drafting"
         /\ Commits(i, stale_raises,
                    [ web.row EXCEPT
                        !.tweet_drafts = Stored(Dumps(results.tweet_drafts)),
                        !.status = "Completed" ],
                    "returned", TRUE)
    /\ PipelineUntouched

\* lines 132-135: perform_drafting raises
DraftingFails ==
    /\ \E i \in 1..Len(web.tasks), stale_raises \in BOOLEAN :
         /\ web.tasks[i].pc = "drafting"
         /\ Commits(i, stale_raises, [ web.row EXCEPT !.status = "Error" ],
                    "returned", TRUE)
    /\ PipelineUntouched

----------------------------------------------------------------------------
(* Specification of the receiver: handlers and background tasks of one video *)

InitWeb ==
    /\ pc = "idle"
    /\ chunk_size = MaxChunkSize
    /\ notes = <<>>
    /\ pre_chunks = <<>>
    /\ citations = <<>>
    /\ research = NoResearch
    /\ Fresh
    /\ web \in { [ NoWeb EXCEPT !.colab_url = u ] : u \in { "" } \cup ColabUrls }

\* the steps of the background tasks
TaskStep ==
    \/ StartSendToColab
    \/ PostReturns
    \/ PostFails
    \/ PostRaises
    \/ StartResearchTask
    \/ ResearchReturns
    \/ ResearchRaises
    \/ StartDraftingTask
    \/ DraftingReturns
    \/ DraftingFails

NextWeb ==
    \/ set_colab_url
    \/ add_video
    \/ retry_video
    \/ update_research
    \/ delete_video
    \/ StartSendToColab
    \/ PostReturns
    \/ PostFails
    \/ PostRaises
    \/ StartResearchTask
    \/ ResearchReturns
    \/ ResearchRaises
    \/ StartDraftingTask
    \/ DraftingReturns
    \/ DraftingFails

SpecWeb == InitWeb /\ [][NextWeb]_vars

\* every background task is resumed once the call it awaits returns or
\* raises, and every external call does one or the other
SpecWebLive == SpecWeb /\ WF_vars(TaskStep)

----------------------------------------------------------------------------
(* Properties of the draft loop *)

\* what the chunk of one ended backend call contributed: nothing if the call
\* or the parse raised, else the normalized drafts in the returned order
Contributed(outcome) ==
    LET parsed == ParseResponse(outcome.resp)
    IN  IF outcome.raised \/ parsed.raised THEN <<>> ELSE parsed.drafts

Failed(outcome) == outcome.raised \/ ParseResponse(outcome.resp).raised

ContributedSoFar ==
    Flatten([ k \in 1..Len(outcomes) |-> Contributed(outcomes[k]) ])

Finished == pc \in { "done", "raised" }

\* C1: a backend call that raises for any chunk, chunk 0 included, is logged
\* and skipped: no error reaches the caller, every later chunk is still
\* submitted, and the result holds the drafts of the successful chunks in
\* order (chunk 0 raising and chunk 1 returning two drafts gives exactly
\* those two drafts).
C1_ChunkFailureContinues ==
    (\E k \in 1..Len(outcomes) : outcomes[k].raised) =>
        /\ pc # "raised"
        /\ Finished => Len(submitted) = Len(valid_chunks)
        /\ pc = "done" => result = ResolveAll(ContributedSoFar, citations)

\* C2: with a client and research notes, perform_drafting never ends by
\* raising, whatever the per-chunk backend outcomes are.
C2_NeverRaises == pc # "raised"

C6_OneCallInFlight ==
    /\ Cardinality(inflight) <= 1
    /\ Len(outcomes) + Cardinality(inflight) = Len(submitted)
    /\ pc \in { "loop", "await" } => all_tweets = ContributedSoFar

C6_Witness ==
    /\ pc = "await"
    /\ inflight = { 1 }
    /\ Len(outcomes) = 1
    /\ all_tweets # <<>>

\* C7: chunks are submitted in strictly increasing assembly order, none more
\* than once; a failed chunk is skipped, never retried, and the chunk after
\* it is the next one submitted.
C7_InOrderOnceAndOnward ==
    /\ \A k \in 1..Len(submitted) : submitted[k] = k - 1
    /\ Len(submitted) <= Len(valid_chunks)
    /\ \A k \in 1..Len(outcomes) :
         (Failed(outcomes[k]) /\ k < Len(valid_chunks)) =>
             \/ Len(submitted) > k
             \/ pc = "loop" /\ index = k

----------------------------------------------------------------------------
(* Properties of the chunk assembler *)

NoBlockOversized ==
    \A b \in 1..Len(pre_chunks) : ~Oversized(pre_chunks[b], chunk_size)

\* C3: every emitted chunk has length <= M unless it is a piece of a single
\* block longer than M, and the accumulator never holds more than M
\* characters.
C3_ChunksWithinMax ==
    /\ Len(current_chunk) <= chunk_size
    /\ \A k \in 1..Len(valid_chunks) :
         IF origin[k].piece
         THEN Oversized(pre_chunks[origin[k].first], chunk_size)
         ELSE Len(valid_chunks[k]) <= chunk_size

C3_Witness ==
    /\ pc = "loop"
    /\ \E k \in 1..Len(valid_chunks) :
         /\ origin[k].last > origin[k].first
         /\ Len(valid_chunks[k]) = chunk_size
    /\ \E k \in 1..Len(valid_chunks) :
         origin[k].piece /\ Len(valid_chunks[k]) > chunk_size

\* C4: the assembler only merges: with no block over the maximum, the chunks
\* joined by the paragraph separator equal the blocks joined by it, and each
\* block lies wholly inside exactly one chunk (the chunks are consecutive
\* runs of blocks that cover the block list in order).
C4_MergeOnly ==
    (pc # "assemble" /\ NoBlockOversized) =>
        /\ Join(valid_chunks, ParSep) = Join(pre_chunks, ParSep)
        /\ Len(origin) = Len(valid_chunks)
        /\ \A k \in 1..Len(valid_chunks) :
             /\ origin[k].first = (IF k = 1 THEN 1 ELSE origin[k - 1].last + 1)
             /\ origin[k].first <= origin[k].last
             /\ valid_chunks[k] =
                    Join(SubSeq(pre_chunks, origin[k].first, origin[k].last), ParSep)
        /\ (valid_chunks # <<>>) => origin[Len(origin)].last = Len(pre_chunks)
        /\ (valid_chunks = <<>>) => pre_chunks = <<>>

C4_Witness ==
    /\ pc = "loop"
    /\ NoBlockOversized
    /\ Len(pre_chunks) = 3
    /\ Len(valid_chunks) = 2
    /\ origin[1].last = 2

----------------------------------------------------------------------------
(* Properties of citation replacement *)

Paren(text) == << "(" >> \o text \o << ")" >>

\* the number a marker segment carries
MarkerNumber(seg) == ToInt(seg.body)

Resolves(seg, cites) ==
    seg.kind # "text" /\ 1 <= MarkerNumber(seg) /\ MarkerNumber(seg) <= Len(cites)

ExpectedSeg(seg, cites) ==
    IF Resolves(seg, cites)
    THEN Paren(SourceUrl(cites[MarkerNumber(seg)]))
    ELSE RenderSeg(seg)

Expected(ss, cites) == Flatten([ k \in 1..Len(ss) |-> ExpectedSeg(ss[k], cites) ])

\* C8: a marker [N] or [cite: N] is replaced by the parenthesized source at
\* position N exactly when 1 <= N <= len(sources); every other marker and all
\* surrounding text stay as they were; the example draft resolves to
\* "claim here (https://a.test) and also (https://b.test) and [9]".
C8_ResolvesInRangeOnly ==
    pc = "done" =>
        /\ result = << Expected(segs, citations) >>
        /\ (segs = ExampleSegs /\ citations = << SrcA, SrcB >>) =>
               result = << ExampleOutput >>

C8_Witness ==
    /\ pc = "done"
    /\ segs = ExampleSegs
    /\ citations = << SrcA, SrcB >>
    /\ result = << ExampleOutput >>

HasMarker(t) == \E i \in 1..Len(t) : MatchAt(t, i).ok

\* C9: citation replacement is idempotent on any draft whose resolved text
\* holds no further citation marker.
C9_Idempotent ==
    (pc = "done" /\ ~HasMarker(result[1])) =>
        ResolveAll(result, citations) = result

C9_Witness ==
    /\ pc = "done"
    /\ citations # <<>>
    /\ result[1] # Render(segs)
    /\ ~HasMarker(result[1])
    /\ ResolveAll(result, citations) = result

Usable(has, value) == has /\ value # <<>>

\* C10: an in-range marker of a structured source is replaced by the uri
\* field if present and non-empty, else the url field if present and
\* non-empty, else the stringified source; of a plain string source by the
\* string; always inside one pair of parentheses.
C10_DisplayString ==
    (pc = "done" /\ Len(segs) = 1 /\ Resolves(segs[1], citations)) =>
        LET source == citations[MarkerNumber(segs[1])]
            shown == result[1]
        IN  /\ (~source.isdict) => shown = Paren(source.s)
            /\ (source.isdict /\ Usable(source.has_uri, source.uri)) =>
                   shown = Paren(source.uri)
            /\ (source.isdict /\ ~Usable(source.has_uri, source.uri)
                  /\ Usable(source.has_url, source.url)) =>
                   shown = Paren(source.url)
            /\ (source.isdict /\ ~Usable(source.has_uri, source.uri)
                  /\ ~Usable(source.has_url, source.url)) =>
                   shown = Paren(DictStr(source))

C10_Witness ==
    /\ pc = "done"
    /\ Len(segs) = 1
    /\ Resolves(segs[1], citations)
    /\ citations[MarkerNumber(segs[1])].isdict
    /\ Usable(citations[MarkerNumber(segs[1])].has_uri, citations[MarkerNumber(segs[1])].uri)
    /\ Usable(citations[MarkerNumber(segs[1])].has_url, citations[MarkerNumber(segs[1])].url)
    /\ result = << << "(", "u", ")" >> >>

----------------------------------------------------------------------------
(* Properties of the segmenter *)

Segmented == pc # "segment"

RECURSIVE Layout(_, _, _)
\* lays the blocks out over text t from position i, in order and with nothing
\* but whitespace before, between and after them: whether that covers t, and
\* where each block then starts
Layout(t, blocks, i) ==
    LET p == SkipSpaces(t, i)
    IN  IF blocks = <<>>
        THEN [ ok |-> p = Len(t) + 1, starts |-> <<>> ]
        ELSE LET e == p + Len(Head(blocks)) - 1
             IN  IF e <= Len(t) /\ SubSeq(t, p, e) = Head(blocks)
                 THEN LET rest == Layout(t, Tail(blocks), e + 1)
                      IN  [ ok |-> rest.ok, starts |-> << p >> \o rest.starts ]
                 ELSE [ ok |-> FALSE, starts |-> <<>> ]

Range(f) == { f[k] : k \in DOMAIN f }

\* the blocks are trimmed and non-empty, they cover text t in order up to
\* whitespace, and every marker of t starts a block
Reconstructs(t, blocks) ==
    LET lay == Layout(t, blocks, 1)
    IN  /\ \A k \in 1..Len(blocks) : blocks[k] # <<>> /\ Strip(blocks[k]) = blocks[k]
        /\ lay.ok
        /\ \A i \in 1..Len(t) : MarkerAt(t, i) => i \in Range(lay.starts)

\* C17 as stated: for every text T the blocks are non-empty after trimming,
\* in source order, and their concatenation is T up to whitespace, no other
\* character of T dropped or duplicated, each marker heading the block that
\* follows its split.  Violated by a text holding the escape of line 198.
C17_ReconstructsText == Segmented => Reconstructs(notes, pre_chunks)

\* C17 amended: the same of the text in which every two-character escape
\* backslash-n has been replaced by a newline (line 198)
C17_ReconstructsNormalizedText ==
    Segmented => Reconstructs(NormalizeNewlines(notes), pre_chunks)

\* a split made by a marker alone, after a single newline, in a text that also
\* loses whitespace between two blocks
C17_Witness ==
    /\ Segmented
    /\ LET t == NormalizeNewlines(notes)
           lay == Layout(t, pre_chunks, 1)
       IN  /\ lay.ok
           /\ \E k \in 2..Len(pre_chunks) :
                /\ lay.starts[k] > 2
                /\ MarkerAt(t, lay.starts[k])
                /\ t[lay.starts[k] - 1] = "\n"
                /\ t[lay.starts[k] - 2] # "\n"
                /\ Len(pre_chunks[k]) > 2
           /\ Len(Flatten(pre_chunks)) < Len(t)

\* C18: for the notes "# Intro\nHello world.\n\n## Body\nMore text here." and
\* a maximum chunk size of 1000, segmentation produces exactly the two blocks
\* "# Intro\nHello world." and "## Body\nMore text here.", and assembly merges
\* them into exactly one chunk
C18_ExampleTwoBlocksOneChunk ==
    (notes = ExampleNotes /\ chunk_size = 1000) =>
        /\ Segmented => pre_chunks = ExampleBlocks
        /\ pc = "loop" => valid_chunks = << Join(ExampleBlocks, ParSep) >>

C18_Witness ==
    /\ notes = ExampleNotes
    /\ chunk_size = 1000
    /\ pc = "loop"
    /\ Len(pre_chunks) = 2
    /\ Len(valid_chunks) = 1

\* text t has non-whitespace content on both sides of position i
ContentAround(t, i) ==
    Strip(SubSeq(t, 1, i - 1)) # <<>> /\ Strip(SubSeq(t, i, Len(t))) # <<>>

\* no structural split point of line 204 separates content of t: the
\* structural split yields at most one non-empty block
StructurallyFlat(t) ==
    \A i \in 1..Len(t) :
        ContentAround(t, i) =>
            /\ ~(t[i] = "\n" /\ i < Len(t) /\ t[i + 1] = "\n")
            /\ ~MarkerAt(t, i)

\* t holds two paragraphs delimited by a blank line: a line of nothing but
\* whitespace with content before and after it
BlankLineParagraphs(t) ==
    \E i, j \in 1..Len(t) :
        /\ i < j
        /\ t[i] = "\n" /\ t[j] = "\n"
        /\ \A k \in i..j : IsSpace(t[k])
        /\ ContentAround(t, i)

FlatIffOneBlock ==
    Segmented => (StructurallyFlat(NormalizeNewlines(notes)) <=> Len(pre_chunks) <= 1)

----------------------------------------------------------------------------
(* Properties of the chunks handed to the draft loop *)

\* C19: no chunk handed to the draft generator is empty, so the backend is
\* never invoked with an empty research section, and empty research notes
\* produce zero chunks and zero backend calls
C19_NoEmptyChunk ==
    /\ \A k \in 1..Len(valid_chunks) : Strip(valid_chunks[k]) # <<>>
    /\ \A k \in 1..Len(submitted) :
         /\ submitted[k] < Len(valid_chunks)
         /\ valid_chunks[submitted[k] + 1] # <<>>
    /\ notes = <<>> => valid_chunks = <<>> /\ submitted = <<>>

\* perform_drafting has returned for empty notes without a chunk or a call
C19_Witness ==
    /\ notes = <<>>
    /\ pc = "done"
    /\ valid_chunks = <<>>
    /\ submitted = <<>>
    /\ result = <<>>

----------------------------------------------------------------------------
(* Properties of perform_research *)

\* the research step has failed: the client is missing, the interaction
\* ended as failed, or it completed with no outputs
ResearchFailed ==
    \/ ~research.client /\ research.pc # "start"
    \/ research.status = "failed"
    \/ research.outputs = "none"

DraftingInvoked == pc # "idle"

\* C20: if the research step fails, perform_research raises to its caller,
\* perform_drafting is never invoked for that run, and no result dictionary
\* is returned
C20_ResearchFailurePropagates ==
    ResearchFailed =>
        /\ research.pc = "raised"
        /\ ~DraftingInvoked
        /\ submitted = <<>>
        /\ research.ret = NoReturn

\* the interaction was polled as in progress, then as failed
C20_Witness ==
    /\ research.status = "failed"
    /\ research.polls > 0
    /\ research.pc = "raised"
    /\ ~DraftingInvoked

\* C11: drafting and citation resolution never modify the source list: while
\* perform_drafting runs and after it returns or raises, the citations list
\* is the list passed in, and perform_research returns as "sources" exactly
\* the list the research step produced
C11_SourcesUnmodified ==
    /\ DraftingInvoked => citations = research.sources
    /\ research.pc = "returned" => research.ret.sources = research.sources

\* perform_research has returned drafts in which a marker was resolved
\* against a list of two sources
C11_Witness ==
    /\ research.pc = "returned"
    /\ Len(research.sources) = 2
    /\ research.ret.sources = research.sources
    /\ \E k \in 1..Len(research.ret.tweet_drafts) :
         /\ research.ret.tweet_drafts[k] # <<>>
         /\ ~HasMarker(research.ret.tweet_drafts[k])
         /\ \E j \in 1..Len(outcomes) :
              /\ ~Failed(outcomes[j])
              /\ \E d \in 1..Len(Contributed(outcomes[j])) :
                   /\ HasMarker(Contributed(outcomes[j])[d])
                   /\ ResolveTweet(Contributed(outcomes[j])[d], citations)
                        = research.ret.tweet_drafts[k]

----------------------------------------------------------------------------
(* Properties of the response parse *)

\* the calls that returned a text
Returned == { k \in 1..Len(outcomes) : ~outcomes[k].raised /\ outcomes[k].resp.has_text }

TextOf(k) == outcomes[k].resp.text

\* json.loads accepts the cleaned text
ValidJson(text) == Loads(clean_json_markdown(text)).ok

\* what a tier's list gives once normalized
Yield(list) == Normalize(Elements(list))

\* the structured tier's drafts, none where json.loads or the loop raises
StructuredYield(text) ==
    IF ValidJson(text) /\ Iterable(StructuredDrafts(Loads(clean_json_markdown(text)).v))
    THEN Yield(StructuredDrafts(Loads(clean_json_markdown(text)).v))
    ELSE <<>>

C13_FencedParsesAlike ==
    (response.has_text /\ response.text = Fenced(raw)) =>
        ParseResponse(response) = ParseResponse(TextResponse(raw))

\* the members of a dict whose key satisfies the test, by position
Positions(members, Test(_)) == { k \in 1..Len(members) : Test(members[k].key) }

NamesTweetDraftsOrTweets(key) ==
    \/ \E i \in 1..Len(key) : StartsWithAt(Lower(key), i, KeyTweetDrafts)
    \/ \E i \in 1..Len(key) : StartsWithAt(Lower(key), i, KeyTweets)

\* the choice among the keys of a parsed object: the exactly-named key if
\* present, otherwise the first key that the test accepts, otherwise none
\* (the empty list drafts starts as).  A bare list is taken as it is.
ChosenBy(data, Test(_)) ==
    IF data.t = "list" THEN data
    ELSE IF data.t # "dict" THEN List(<<>>)
    ELSE IF Positions(data.members, KeyExact) # {}
         THEN data.members[Min(Positions(data.members, KeyExact))].value
         ELSE IF Positions(data.members, Test) # {}
              THEN data.members[Min(Positions(data.members, Test))].value
              ELSE List(<<>>)

\* the value json.loads made of the unfenced body of the last response
ParsedBody == Loads(clean_json_markdown(raw)).v

BodyParses == response.has_text /\ response.text = raw /\ ValidJson(raw)

\* C14 as stated: from a JSON object the drafts are taken from the exactly
\* named key if present, otherwise from the first key whose name contains
\* "draft" or "tweet" case-insensitively; a bare list is taken itself.
\* Violated by an object whose only key is "drafts" or "tweet".
C14_DraftOrTweetKey ==
    BodyParses => Extracted(raw) = ChosenBy(ParsedBody, KeyFuzzy_DraftOrTweet)

\* C14 amended: ... otherwise from the first key whose lower-cased name
\* contains "tweet_drafts" or "tweets", and from no key if there is none
C14_TweetDraftsOrTweetsKey ==
    BodyParses => Extracted(raw) = ChosenBy(ParsedBody, NamesTweetDraftsOrTweets)

\* an object of two keys, neither the exact one, the second being the first
\* that matches, has given the second key's list
C14_Witness ==
    /\ BodyParses
    /\ ParsedBody.t = "dict"
    /\ Len(ParsedBody.members) = 2
    /\ Positions(ParsedBody.members, KeyExact) = {}
    /\ Positions(ParsedBody.members, NamesTweetDraftsOrTweets) = { 2 }
    /\ ParsedBody.members[2].key # Lower(ParsedBody.members[2].key)
    /\ all_tweets = << DraftY >>

IsStringOrNumber(item) == item.t \in { "str", "num" }

\* the text of each item that is a string or a number, in order
TextsOfStringsAndNumbers(items) ==
    LET chosen == SelectSeq(items, IsStringOrNumber)
    IN  [ k \in 1..Len(chosen) |-> chosen[k].s ]

\* C15: every element of the accumulated draft list is a text: the extracted
\* items that are strings or numbers, converted to text, every other item
\* being discarded
C15_OnlyStringsAndNumbersKept ==
    /\ pc \in { "loop", "await" } => all_tweets = ContributedSoFar
    /\ \A k \in Returned :
         ~Failed(outcomes[k]) =>
            Contributed(outcomes[k])
                = TextsOfStringsAndNumbers(Elements(Extracted(TextOf(k))))

----------------------------------------------------------------------------
(* Properties of the per-chunk failure handling and of the prompts *)

\* the step ends the backend call of one chunk
ChunkEnds == Len(outcomes') = Len(outcomes) + 1

\* C21: a chunk that fails (the backend call raises or times out, or the
\* parse of the response raises) leaves the accumulated draft list exactly as
\* it was before the chunk started; the list grows only in the step that ends
\* a successful chunk, and then by that chunk's drafts, appended at the end.
C21_FailedChunkLeavesDrafts ==
    [][ /\ (ChunkEnds /\ Failed(outcomes'[Len(outcomes')])) =>
              all_tweets' = all_tweets
        /\ (pc = "await" /\ all_tweets' # all_tweets) =>
              /\ ChunkEnds
              /\ ~Failed(outcomes'[Len(outcomes')])
              /\ all_tweets' = all_tweets \o Contributed(outcomes'[Len(outcomes')]) ]_vars

C21_Witness ==
    /\ Len(outcomes) = 3
    /\ Contributed(outcomes[1]) # <<>>
    /\ Failed(outcomes[2]) /\ ~outcomes[2].raised
    /\ outcomes[3].raised
    /\ all_tweets = Contributed(outcomes[1])
    /\ pc = "loop"

\* the drafts accumulated from the chunks whose call ended before chunk i
\* (0-based) was submitted, unresolved
DraftsBefore(i) ==
    Flatten([ k \in 1..i |-> Contributed(outcomes[k]) ])

Dashed(draft) == << "-", " " >> \o draft

\* C22: for every chunk i > 0 the previous context of the system prompt is
\* built from the last two drafts (the single one, if only one exists)
\* accumulated from chunks 0..i-1, in their order and unresolved; with no
\* draft accumulated it is the empty-state sentinel.
C22_PreviousContextIsLastTwo ==
    \A i \in 1..(Len(prompts) - 1) :
        LET drafts == DraftsBefore(i)
            n == Len(drafts)
        IN  prompts[i + 1].previous_context =
                IF n = 0 THEN Sentinel
                ELSE IF n = 1 THEN Dashed(drafts[1])
                ELSE Dashed(drafts[n - 1]) \o << "\n" >> \o Dashed(drafts[n])

C22_Witness ==
    /\ Len(prompts) = 3
    /\ citations # <<>>
    /\ DraftsBefore(1) = <<>>
    /\ prompts[2].previous_context = Sentinel
    /\ Len(DraftsBefore(2)) = 3
    /\ prompts[3].previous_context # Sentinel

\* C23: the initial system prompt is used for the chunk at index 0 and for no
\* other chunk; every chunk with index >= 1 uses the continuation prompt with
\* the previous-context string, also when chunk 0 contributed no drafts.
C23_InitialPromptOnlyForFirstChunk ==
    \A k \in 1..Len(prompts) :
        /\ prompts[k].initial <=> submitted[k] = 0
        /\ submitted[k] >= 1 =>
              prompts[k].previous_context = PreviousContext(DraftsBefore(k - 1))

C23_Witness ==
    /\ Len(prompts) >= 2
    /\ prompts[1].initial
    /\ submitted[2] = 1
    /\ Len(outcomes) >= 1
    /\ Failed(outcomes[1])
    /\ ~prompts[2].initial
    /\ \E k \in 1..Len(prompts) : submitted[k] = 2 /\ DraftsBefore(2) = <<>>

----------------------------------------------------------------------------
(* Properties of the assembler's handling of blocks *)

\* the step consumes the next block of the merge loop
ConsumesBlock == pc = "assemble" /\ bi' = bi + 1

C25_GreedyAssembly ==
    /\ [][ (/\ ConsumesBlock
            /\ ~Oversized(pre_chunks[bi + 1], chunk_size)
            /\ current_chunk # <<>>) =>
              LET block == pre_chunks[bi + 1]
              IN  IF Len(current_chunk) + 2 + Len(block) <= chunk_size
                  THEN /\ current_chunk' = current_chunk \o ParSep \o block
                       /\ valid_chunks' = valid_chunks
                  ELSE /\ current_chunk' = block
                       /\ valid_chunks' = Append(valid_chunks, current_chunk) ]_vars
    /\ [](\A k \in 1..(Len(valid_chunks) - 1) :
             (~origin[k].piece /\ ~origin[k + 1].piece) =>
                 Len(valid_chunks[k]) + 2 + Len(pre_chunks[origin[k + 1].first])
                     > chunk_size)

C25_Witness ==
    /\ pc = "loop"
    /\ Len(valid_chunks) = 2
    /\ ~origin[1].piece /\ ~origin[2].piece
    /\ origin[1].last = 2
    /\ Len(valid_chunks[1]) + 2 + Len(pre_chunks[3]) = chunk_size + 1
    /\ Len(valid_chunks[1]) + Len(pre_chunks[3]) < chunk_size

----------------------------------------------------------------------------
(* Properties of the value found under the drafts key *)

\* the value json.loads made of the text of response k
ParsedText(k) == Loads(clean_json_markdown(TextOf(k))).v

\* C26: when the value found under the drafts key of a parsed JSON object is
\* not a list (a string, an object, a number or null), the chunk contributes
\* zero drafts: no fragment of a scalar and no key of a nested object becomes
\* a draft.
C26_NonListContributesNothing ==
    \A k \in Returned :
        (/\ ValidJson(TextOf(k))
         /\ ParsedText(k).t = "dict"
         /\ ChosenBy(ParsedText(k), NamesTweetDraftsOrTweets).t # "list") =>
            Contributed(outcomes[k]) = <<>>

----------------------------------------------------------------------------
(* Properties of the research polling loop *)

\* the step is one turn of the polling loop that got a status
PollTurn ==
    /\ research.pc = "poll"
    /\ research'.polls # research.polls \/ research'.status # research.status

LeavesLoop == research.pc = "poll" /\ research'.pc # "poll"

StepOver == research.pc \in { "drafting", "returned", "raised" }

KeepsPolling ==
    [][ (PollTurn /\ research'.status \notin { "completed", "failed" }) =>
            research'.pc = "poll" ]_vars

EndsOnceTerminal ==
    (research.pc = "poll" /\ research.remote \in { "completed", "failed" }) ~> StepOver

\* C30 as stated: the polling loop ends only when the polled status is
\* "completed" (the step then returns notes and sources) or "failed" (the
\* step then raises); once the interaction reaches one of the two the step
\* eventually returns or raises; for any other status it keeps polling.
\* Violated by a status request that raises, and by a completed interaction
\* without outputs.
C30_LoopEndsOnlyOnCompletedOrFailed ==
    /\ [][ LeavesLoop =>
              \/ research'.status = "completed" /\ research'.pc = "collect"
              \/ research'.status = "failed" /\ research'.pc = "raised" ]_vars
    /\ [][ (research.pc = "collect" /\ research'.pc # "collect") =>
              research'.pc = "drafting" /\ research'.outputs = "some" ]_vars
    /\ EndsOnceTerminal
    /\ KeepsPolling

\* C30 amended: the loop ends when the polled status is "completed" (the
\* step then returns notes and sources, or raises if the interaction has no
\* outputs or its output is JSON that is no object), when it is "failed"
\* (the step raises), or when the status request itself raises (the step
\* raises); the rest as stated.
C30_LoopEndsOnStatusOrError ==
    /\ [][ LeavesLoop =>
              \/ research'.status = "completed" /\ research'.pc = "collect"
              \/ research'.status = "failed" /\ research'.pc = "raised"
              \/ /\ research'.status = research.status
                 /\ research'.polls = research.polls
                 /\ research'.pc = "raised" ]_vars
    /\ [][ (research.pc = "collect" /\ research'.pc # "collect") =>
              \/ research'.pc = "drafting" /\ research'.outputs = "some"
              \/ research'.pc = "raised" /\ research'.outputs # "some" ]_vars
    /\ EndsOnceTerminal
    /\ KeepsPolling

\* the interaction was polled as in progress, then as completed, and the
\* step raised for want of outputs
C30_Witness ==
    /\ research.polls >= 1
    /\ research.status = "completed"
    /\ research.outputs = "none"
    /\ research.pc = "raised"

----------------------------------------------------------------------------
(* Properties of the receiver *)

\* the step is retry_video queueing a task
Retries ==
    /\ Len(web'.tasks) = Len(web.tasks) + 1
    /\ web'.tasks[Len(web'.tasks)].origin = "retry"

\* the last transcription attempt failed: send_to_colab ended with status
\* Error and its message in the transcription column
TranscriptionFailed ==
    /\ web.row.status = "Error"
    /\ ~web.row.transcribed
    /\ ~web.row.transcription.null

\* C27: retry_video takes the research-only path only when a real
\* transcription text is stored; after a failed transcription attempt a retry
\* sets status Pending and re-sends the video to the transcription worker.
C27_RetryResearchOnlyWithTranscription ==
    [][ Retries =>
          LET task == web'.tasks[Len(web'.tasks)]
          IN  /\ task.kind = "run_research_task" => web.row.transcribed
              /\ TranscriptionFailed =>
                    /\ task.kind = "send_to_colab"
                    /\ web'.row.status = "Pending" ]_vars

NonTerminal == { "Pending", "Researching", "Drafting" }

Terminal == { "Completed", "Error", "Quota_Exceeded", "Research_Failed" }

\* C28: every video whose background workflow is started eventually leaves
\* the statuses Pending, Researching and Drafting and reaches one of
\* Completed, Error, Quota_Exceeded or Research_Failed (unless it is
\* deleted), every external call eventually returning or raising.
C28_ReachesTerminalStatus ==
    (web.tasks # <<>>) ~> (~web.row.exists \/ web.row.status \in Terminal)

\* C29: under any interleaving of delete_video with the background tasks of
\* the video, no task ends by raising: a task that finds the row missing
\* returns.
C29_TasksNeverRaise ==
    \A i \in 1..Len(web.tasks) : web.tasks[i].pc # "raised"

====
